---- MODULE Spec2Model ----
(***************************************************************************)
(* FoxFamilyTask bot (src/bot.py): the JSON store, the per-principal FSM   *)
(* of aiogram's MemoryStorage, the message and callback handlers of        *)
(* start_bot and the background reminders_loop.                            *)
(*                                                                         *)
(* Handlers are asyncio coroutines dispatched as independent tasks: a      *)
(* handler runs atomically between two awaits on the transport (or on      *)
(* asyncio.sleep).  An action of this module is one such atomic segment;   *)
(* a handler that still has an effect on the store or on the FSM after a   *)
(* suspension leaves a frame in `frames` and a later action resumes it.    *)
(*                                                                         *)
(* Clock unit: 600 s.  Python dicts are functions with a finite domain,    *)
(* a missing key is a value outside DOMAIN; None and "" are <<>> and 0.    *)
(***************************************************************************)
EXTENDS Integers, Sequences, FiniteSets, TLC

\* ------------------------------------------------------------- bounds
NumUsers == 2
MaxFamilies == 2
MaxTasks == 2
MaxKeys == 3
MaxTime == 2
MaxFrames == 2
MaxItems == 2
MaxUpdates == 2
MaxReminders == 2
MaxSecond == 1

\* ------------------------------------------------- program constants
\* KEY_EXPIRY_SEC = 600 s, one clock unit
KEY_EXPIRY_SEC == 1
\* timedelta(hours=1), the grace window of task_deadline_handler
GRACE == 6
\* the cap on the members of a family without subscription, and the
\* warning threshold
MAX_FREE_MEMBERS == 25
WARN_MEMBERS_THRESHOLD == 20

Users == 1..NumUsers
FamIds == 1..MaxFamilies
TaskIds == 1..MaxTasks

None == <<>>
NO_FAMILY == 0

\* REMINDER_OPTIONS in clock units: none, 10 minutes, 30 minutes
REMINDER_OPTIONS == {0, 1, 3}
\* TASK_TYPES: "regular" stands for every type that is not "shopping"
TASK_TYPES == {"regular", "shopping"}
DisplayType(t) == IF t = "regular" THEN "Regular" ELSE "Other"

Nicks == {"mama", "papa"}
FirstName(u) == IF u = 1 THEN "mama" ELSE "user"
Names == {"Fox"}
Descs == {"d1"}
DEFAULT_NAME == "My family"
CREATOR_NICK == "Creator"
DEFAULT_NICK == "Member"

\* ------------------------------------------------------ dict helpers
EmptyDict == <<>>
Has(d, k) == k \in DOMAIN d
Put(d, k, v) == [x \in (DOMAIN d) \cup {k} |-> IF x = k THEN v ELSE d[x]]
Get(d, k, default) == IF k \in DOMAIN d THEN d[k] ELSE default
Pop(d, k) == [x \in (DOMAIN d) \ {k} |-> d[x]]
ListRemove(s, x) == SelectSeq(s, LAMBDA y : y # x)
InList(s, x) == \E i \in 1..Len(s) : s[i] = x

\* ---------------------------------------------------------- variables
VARIABLES
    db,        \* the parsed content of DB_PATH
    diskOk,    \* whether a write to the disk succeeds
    fsm,       \* MemoryStorage: per principal, the state and the data
    frames,    \* suspended handler coroutines
    sched,     \* the reminders_loop coroutine
    now,       \* time.time() in clock units
    nextFam,   \* uuid4 draws for families
    nextTask,  \* uuid4 draws for tasks
    nextKey,   \* token_urlsafe draws
    shown,     \* per principal, the inline buttons sent to them
    reply,     \* per principal, what the last handler answered
    fanout,    \* the last notify_family batch: family, kind, recipients
    reminded,  \* per task id, the number of reminder batches sent
    files,     \* the directory of DB_PATH: per file name, the text it holds
    saver,     \* the call of atomic_save_db in progress, or the last one
    loaded,    \* what the last call of load_db returned
    second,    \* int(time.time()), the clock in seconds
    delivery   \* the call of notify_family in progress, or the last one

\* The handlers are modelled over the document (db).  files, saver, loaded
\* and second follow the bytes under DB_PATH; they move in the specification
\* of the store only.  delivery follows the loop of one call of
\* notify_family.
store == <<files, saver, loaded, second>>
bot == <<db, diskOk, fsm, frames, sched, now, nextFam, nextTask, nextKey,
         shown, reply, fanout, reminded>>

vars == <<db, diskOk, fsm, frames, sched, now, nextFam, nextTask, nextKey,
          shown, reply, fanout, reminded, store, delivery>>

\* ------------------------------------------------------------- store
EmptyDb == [families |-> EmptyDict, users |-> EmptyDict]

\* load_db: the parsed document (the missing top-level keys are filled in)
load_db == db

\* atomic_save_db: the whole snapshot replaces the document, or the write
\* raises and the document stays
atomic_save_db(d) == db' = d

NewUser == [families |-> <<>>, current_family |-> NO_FAMILY, tz |-> 0]

\* db["users"].get(uid, {}).get("current_family")
CurrentFamily(d, uid) ==
    IF Has(d.users, uid) THEN d.users[uid].current_family ELSE NO_FAMILY

\* `not fam_id or fam_id not in db["families"]`
NoFamily(d, fam_id) == fam_id = NO_FAMILY \/ ~Has(d.families, fam_id)

\* db["users"].setdefault(uid, {...})
SetDefaultUser(d, uid) ==
    IF Has(d.users, uid) THEN d ELSE [d EXCEPT !.users = Put(@, uid, NewUser)]

\* generate_family_key
generate_family_key ==
    [value |-> nextKey, created |-> now, expires |-> now + KEY_EXPIRY_SEC]

\* is_key_valid: <<result, family after the call>>
is_key_valid(key_input, family) ==
    LET kd == family.active_key IN
    IF kd = None THEN <<FALSE, family>>
    ELSE IF now > kd.expires
         THEN <<FALSE, [family EXCEPT !.active_key = None]>>
         ELSE <<key_input = kd.value, family>>

\* ------------------------------------------- the store under DB_PATH
\* A text is the sequence of the tokens json.dump writes, one write each.
\* The values of the top-level keys stand for whole sub-documents.
TopKeyOrder == <<"families", "users", "settings", "data_folder", "output_base">>
TopKeys == {TopKeyOrder[i] : i \in 1..Len(TopKeyOrder)}
Default(k) ==
    CASE k = "families" -> "{}"
      [] k = "users" -> "{}"
      [] k = "settings" -> "{default_timezone: UTC}"
      [] k = "data_folder" -> "cwd"
      [] k = "output_base" -> "cwd/output"
DefaultSnapshot == [k \in TopKeys |-> Default(k)]

\* the snapshots handed to atomic_save_db: dicts with all, some or none of
\* the top-level keys, with and without families
Snapshots ==
    UNION {{s \in [K -> {"{}", "{fam}", Default("settings"), Default("data_folder"),
                         Default("output_base")}] :
               \A k \in K : s[k] = Default(k) \/ (k = "families" /\ s[k] = "{fam}")} :
           K \in {TopKeys, TopKeys \ {"settings"}, {"families", "users"}, {}}}

\* what an unreadable file holds: no JSON at all, or JSON that is no dict
Garbage == {<<"x">>, <<"[", "]">>}

RECURSIVE DumpPairs(_, _)
DumpPairs(s, i) ==
    IF i > Len(TopKeyOrder) THEN <<>>
    ELSE (IF TopKeyOrder[i] \in DOMAIN s
          THEN <<TopKeyOrder[i], s[TopKeyOrder[i]]>> ELSE <<>>)
         \o DumpPairs(s, i + 1)
json_dump(s) == <<"{">> \o DumpPairs(s, 1) \o <<"}">>

\* json.load: a dict, another JSON value, or JSONDecodeError
json_load(text) ==
    LET n == Len(text)
        pairs == (n - 2) \div 2 IN
    IF n >= 2 /\ text[1] = "[" /\ text[n] = "]"
    THEN [kind |-> "list", data |-> EmptyDict]
    ELSE IF n >= 2 /\ n % 2 = 0 /\ text[1] = "{" /\ text[n] = "}"
    THEN [kind |-> "dict",
          data |-> [k \in {text[2 * i] : i \in 1..pairs} |->
                      LET last == CHOOSE i \in 1..pairs :
                                     /\ text[2 * i] = k
                                     /\ \A j \in 1..pairs : text[2 * j] = k => j <= i
                      IN text[2 * last + 1]]]
    ELSE [kind |-> "error", data |-> EmptyDict]

\* a load that overwrites what the document holds
Overwrite(d, k, v) == Put(d, k, v)
\* data.setdefault(k, v)
SetDefault(d, k, v) == IF Has(d, k) THEN d ELSE Put(d, k, v)

DB_PATH == "foxfamily_db.json"
\* a save that writes where the document is
InPlacePath == DB_PATH
\* DB_PATH.with_suffix(".tmp")
TempPath == "foxfamily_db.tmp"
\* DB_PATH.with_suffix(f".{int(time.time())}.bak")
BackupPath(sec) == "foxfamily_db." \o ToString(sec) \o ".bak"

\* what DB_PATH holds; <<"absent">> when there is no such file
Canon(fs) == IF DB_PATH \in DOMAIN fs THEN fs[DB_PATH] ELSE <<"absent">>
\* Path.replace, and Path.rename where it replaces
Rename(fs, a, b) ==
    [x \in (DOMAIN fs \ {a}) \cup {b} |-> IF x = b THEN fs[a] ELSE fs[x]]

IdleSaver ==
    [pc |-> "idle", new |-> EmptyDict, text |-> <<>>, k |-> 0, old |-> <<>>]

StoreInit ==
    /\ files = EmptyDict
    /\ saver = IdleSaver
    /\ loaded = [done |-> FALSE, raised |-> FALSE, data |-> EmptyDict,
                 after |-> "idle"]
    /\ second = 0

\* atomic_save_db(s) up to the first write: open(temp, "w") creates or
\* truncates the temporary file
store_save_open(s) ==
    /\ saver.pc \in {"idle", "saved"}
    /\ files' = Put(files, TempPath, <<>>)
    /\ saver' = [pc |-> "write", new |-> s, text |-> json_dump(s), k |-> 0,
                 old |-> Canon(files)]
    /\ UNCHANGED <<loaded, second, bot, delivery>>

\* one write of json.dump
store_save_write ==
    /\ saver.pc = "write"
    /\ saver.k < Len(saver.text)
    /\ files' = [files EXCEPT ![TempPath] = Append(@, saver.text[saver.k + 1])]
    /\ saver' = [saver EXCEPT !.k = @ + 1]
    /\ UNCHANGED <<loaded, second, bot, delivery>>

\* the file is closed and temp.replace(DB_PATH) puts it under DB_PATH
store_save_replace ==
    /\ saver.pc = "write"
    /\ saver.k = Len(saver.text)
    /\ files' = Rename(files, TempPath, DB_PATH)
    /\ saver' = [saver EXCEPT !.pc = "saved"]
    /\ UNCHANGED <<loaded, second, bot, delivery>>

\* a write raises: the error is logged and raised again, the temporary
\* file stays as far as it was written
store_save_raises ==
    /\ saver.pc = "write"
    /\ saver' = [saver EXCEPT !.pc = "idle"]
    /\ UNCHANGED <<files, loaded, second, bot, delivery>>

\* the process stops inside atomic_save_db or right after it
store_crash ==
    /\ saver.pc \in {"write", "saved"}
    /\ saver' = [saver EXCEPT !.pc = "stopped"]
    /\ UNCHANGED <<files, loaded, second, bot, delivery>>

\* load_db, also as the first call of a process started after a stop.
\* Path.rename replaces a file of the same name where the platform replaces
\* (posix) and raises FileExistsError where it does not.
store_load(posix) ==
    LET r == json_load(Canon(files))
        filled == SetDefault(SetDefault(SetDefault(SetDefault(SetDefault(
                      r.data, "families", Default("families")),
                      "users", Default("users")),
                      "settings", Default("settings")),
                      "data_folder", Default("data_folder")),
                      "output_base", Default("output_base"))
        backup_path == BackupPath(second)
        result(data, raised) ==
            [done |-> TRUE, raised |-> raised, data |-> data, after |-> saver.pc] IN
    /\ saver.pc \in {"idle", "saved", "stopped"}
    /\ saver' = IF saver.pc = "stopped" THEN IdleSaver ELSE saver
    /\ IF DB_PATH \notin DOMAIN files
       THEN /\ loaded' = result(DefaultSnapshot, FALSE)
            /\ UNCHANGED files
       ELSE IF r.kind = "dict"
       THEN /\ loaded' = result(filled, FALSE)
            /\ UNCHANGED files
       ELSE IF backup_path \in DOMAIN files /\ ~posix
       THEN /\ loaded' = result(EmptyDict, TRUE)
            /\ UNCHANGED files
       ELSE /\ files' = Rename(files, DB_PATH, backup_path)
            /\ loaded' = result(DefaultSnapshot, FALSE)
    /\ UNCHANGED <<second, bot, delivery>>

\* something outside the program leaves an unreadable file under DB_PATH,
\* between two calls of the program
store_corrupt(g) ==
    /\ saver.pc \in {"idle", "saved"}
    /\ files' = Put(files, DB_PATH, g)
    /\ saver' = IdleSaver
    /\ UNCHANGED <<loaded, second, bot, delivery>>

store_tick ==
    /\ second < MaxSecond
    /\ second' = second + 1
    /\ UNCHANGED <<files, saver, loaded, bot, delivery>>

\* ------------------------------------------------------- FSM storage
NoState == "none"
EmptyFsm == [state |-> NoState, data |-> EmptyDict]

\* a clear that forgets the step and keeps the data
StateResetOnly(f, u) == [f EXCEPT ![u].state = NoState]

\* state.clear(): set_state(None) and set_data({})
StateClear(f, u) == [f EXCEPT ![u] = EmptyFsm]
\* a storage that keeps one step for every principal
SetStateAll(f, u, s) == [x \in DOMAIN f |-> [f[x] EXCEPT !.state = s]]
SetState(f, u, s) == [f EXCEPT ![u].state = s]
UpdateData(f, u, k, v) == [f EXCEPT ![u].data = Put(@, k, v)]

\* ------------------------------------------------------------ frames
Idle == [kind |-> "idle"]
FreeSlots == {i \in 1..MaxFrames : frames[i] = Idle}
HasSlot == FreeSlots # {}
Slot == CHOOSE i \in FreeSlots : \A j \in FreeSlots : i <= j
Suspend(fr) == frames' = [frames EXCEPT ![Slot] = fr]
\* the rest of a handler after its answer: state.clear() or set_state(s)
TailClear(u) ==
    [kind |-> "tail", uid |-> u, op |-> "clear", st |-> NoState, of |-> "handler"]
TailSet(u, s) ==
    [kind |-> "tail", uid |-> u, op |-> "set", st |-> s, of |-> "handler"]
\* the rest of create_task_finish after its last answer
CtfTail(u) == [TailClear(u) EXCEPT !.of = "create_task_finish"]

\* no call of notify_family yet: no batch, nobody to deliver to
NoBatch == [fam |-> NO_FAMILY, kind |-> "none", to |-> {}]
DeliveryIdle ==
    [pc |-> "idle", batch |-> NoBatch, todo |-> <<>>, got |-> EmptyDict,
     failed |-> {}, raised |-> FALSE]

SchedIdle ==
    [pc |-> "sleep", db |-> EmptyDb, now |-> 0, todo |-> <<>>, updated |-> FALSE]

Init ==
    /\ db = EmptyDb
    /\ diskOk = TRUE
    /\ fsm = [u \in Users |-> EmptyFsm]
    /\ frames = [i \in 1..MaxFrames |-> Idle]
    /\ sched = SchedIdle
    /\ now = 0
    /\ nextFam = 1
    /\ nextTask = 1
    /\ nextKey = 1
    /\ shown = [u \in Users |-> {}]
    /\ reply = [u \in Users |-> "none"]
    /\ fanout = [fam |-> NO_FAMILY, kind |-> "none", to |-> {}]
    /\ reminded = [t \in TaskIds |-> 0]
    /\ StoreInit
    /\ delivery = DeliveryIdle


\* ---------------------------------------------------------- dispatch
\* The place of each state's message handler in the registration order of
\* start_bot; a text handler registered later than the handler of the
\* principal's state never sees the message.
StatePos(s) ==
    CASE s = "set_creator_nick" -> 5
      [] s = "join_key" -> 8
      [] s = "join_nick" -> 9
      [] s = "settings_timezone" -> 12
      [] s = "leave_family_confirm" -> 15
      [] s = "change_name" -> 19
      [] s = "create_task_shop_items" -> 21
      [] s = "create_task_desc" -> 22
      [] s = "create_task_deadline" -> 23
      [] s = "update_task_progress" -> 24
      [] s = "change_nick" -> 27
      [] OTHER -> 99
Reaches(u, pos) == StatePos(fsm[u].state) > pos
InState(u, s) == fsm[u].state = s

Answer(u, r) == reply' = [reply EXCEPT ![u] = r]
Show(u, bs) == shown' = [shown EXCEPT ![u] = @ \cup bs]
MenuOf(d, uid) ==
    IF NoFamily(d, CurrentFamily(d, uid)) THEN "main_menu" ELSE "family_menu"

\* ------------------------------------------------------------- tails
\* a suspended handler resumes after its answer was delivered
Resume(i) ==
    /\ frames[i].kind = "tail"
    /\ fsm' = IF frames[i].op = "clear"
              THEN StateClear(fsm, frames[i].uid)
              ELSE SetState(fsm, frames[i].uid, frames[i].st)
    /\ frames' = [frames EXCEPT ![i] = Idle]
    /\ UNCHANGED <<db, diskOk, sched, now, nextFam, nextTask, nextKey,
                   shown, reply, fanout, reminded>>
    /\ UNCHANGED <<store, delivery>>

\* the answer raised (the transport failed): the rest of the handler is lost
ResumeFail(i) ==
    /\ frames[i].kind \in {"tail", "reminder", "ctf"}
    /\ frames' = [frames EXCEPT ![i] = Idle]
    /\ reply' = [reply EXCEPT ![frames[i].uid] = "exception"]
    /\ UNCHANGED <<db, diskOk, fsm, sched, now, nextFam, nextTask, nextKey,
                   shown, fanout, reminded>>
    /\ UNCHANGED <<store, delivery>>

\* ------------------------------------------------- global commands
cmd_start(u) ==
    LET d0 == load_db
        d1 == SetDefaultUser(d0, u) IN
    /\ fsm' = StateClear(fsm, u)
    /\ IF ~Has(d0.users, u) /\ ~diskOk
       THEN UNCHANGED db /\ Answer(u, "exception")
       ELSE /\ IF Has(d0.users, u) THEN UNCHANGED db ELSE atomic_save_db(d1)
            /\ Answer(u, MenuOf(d1, u))
    /\ UNCHANGED <<diskOk, frames, sched, now, nextFam, nextTask, nextKey,
                   shown, fanout, reminded>>
    /\ UNCHANGED <<store, delivery>>

cmd_cancel(u) ==
    /\ IF fsm[u].state = NoState
       THEN /\ Answer(u, "nothing_to_cancel")
            /\ UNCHANGED fsm
       ELSE /\ fsm' = StateClear(fsm, u)
            /\ Answer(u, IF NoFamily(load_db, CurrentFamily(load_db, u))
                         THEN "cancelled_main_menu"
                         ELSE "cancelled_family_menu")
    /\ UNCHANGED <<db, diskOk, frames, sched, now, nextFam, nextTask, nextKey,
                   shown, fanout, reminded>>
    /\ UNCHANGED <<store, delivery>>

\* ------------------------------------------------------- main menu
my_families(u) ==
    LET d == load_db
        fams == IF Has(d.users, u) THEN d.users[u].families ELSE <<>> IN
    /\ fsm' = StateClear(fsm, u)
    /\ IF fams = <<>>
       THEN Answer(u, "main_menu") /\ UNCHANGED shown
       ELSE /\ Answer(u, "families_list")
            /\ Show(u, {<<"enter_family", fams[i]>> : i \in 1..Len(fams)}
                       \cup {<<"create_family">>})
    /\ UNCHANGED <<db, diskOk, frames, sched, now, nextFam, nextTask, nextKey,
                   fanout, reminded>>
    /\ UNCHANGED <<store, delivery>>

enter_family(u, fam_id) ==
    LET d0 == load_db
        member == Has(d0.users, u) /\ InList(d0.users[u].families, fam_id)
        d1 == [d0 EXCEPT !.users[u].current_family = fam_id] IN
    /\ <<"enter_family", fam_id>> \in shown[u]
    /\ IF ~member
       THEN Answer(u, "not_a_member") /\ UNCHANGED db
       ELSE IF ~diskOk
       THEN Answer(u, "exception") /\ UNCHANGED db
       ELSE /\ atomic_save_db(d1)
            /\ Answer(u, IF Has(d1.families, fam_id)
                         THEN "family_menu" ELSE "exception")
    /\ UNCHANGED <<diskOk, fsm, frames, sched, now, nextFam, nextTask,
                   nextKey, shown, fanout, reminded>>
    /\ UNCHANGED <<store, delivery>>

\* the family both create handlers build, with the creator's first nickname
NewFamily(uid, nick) ==
    [name |-> DEFAULT_NAME,
     created_at |-> now,
     creator_id |-> uid,
     members |-> Put(EmptyDict, uid, [nick |-> nick, joined |-> now]),
     active_key |-> generate_family_key,
     tasks |-> EmptyDict,
     completed_tasks |-> EmptyDict]

\* the store after a create handler: the family, the membership list and
\* the current-family pointer of the creator
WithNewFamily(d, uid, fam_id, nick) ==
    LET d1 == SetDefaultUser(d, uid) IN
    [d1 EXCEPT !.families = Put(@, fam_id, NewFamily(uid, nick)),
               !.users[uid].families = Append(@, fam_id),
               !.users[uid].current_family = fam_id]

create_family_callback(u) ==
    /\ <<"create_family">> \in shown[u]
    /\ nextFam <= MaxFamilies /\ nextKey <= MaxKeys
    /\ nextFam' = nextFam + 1 /\ nextKey' = nextKey + 1
    /\ IF diskOk
       THEN /\ atomic_save_db(WithNewFamily(load_db, u, nextFam, FirstName(u)))
            /\ Answer(u, "family_created")
       ELSE UNCHANGED db /\ Answer(u, "exception")
    /\ UNCHANGED <<diskOk, fsm, frames, sched, now, nextTask, shown, fanout,
                   reminded>>
    /\ UNCHANGED <<store, delivery>>

create_family_handler(u) ==
    /\ nextFam <= MaxFamilies /\ nextKey <= MaxKeys
    /\ nextFam' = nextFam + 1 /\ nextKey' = nextKey + 1
    /\ IF diskOk
       THEN /\ atomic_save_db(WithNewFamily(load_db, u, nextFam, CREATOR_NICK))
            /\ fsm' = UpdateData(UpdateData(
                          SetState(fsm, u, "set_creator_nick"),
                          u, "fam_id", nextFam), u, "creator_id", u)
            /\ Answer(u, "family_created")
       ELSE UNCHANGED <<db, fsm>> /\ Answer(u, "exception")
    /\ UNCHANGED <<diskOk, frames, sched, now, nextTask, shown, fanout,
                   reminded>>
    /\ UNCHANGED <<store, delivery>>

\* message.text.strip()[:32] is nick; "" is a blank message
set_creator_nick_handler(u, nick) ==
    LET fam_id == Get(fsm[u].data, "fam_id", NO_FAMILY)
        d0 == load_db
        exists == Has(d0.families, fam_id)
        d1 == [d0 EXCEPT !.families[fam_id].members[u].nick = nick] IN
    /\ InState(u, "set_creator_nick")
    /\ HasSlot
    /\ IF nick = ""
       THEN Answer(u, "retry") /\ UNCHANGED <<db, fsm, frames>>
       ELSE IF fam_id = NO_FAMILY
       THEN /\ Answer(u, "main_menu") /\ fsm' = StateClear(fsm, u)
            /\ UNCHANGED <<db, frames>>
       ELSE IF ~exists
       THEN \* fam is None: fam.get raises AttributeError
            Answer(u, "exception") /\ UNCHANGED <<db, fsm, frames>>
       ELSE IF d0.families[fam_id].creator_id # u
       THEN /\ Answer(u, "not_creator") /\ fsm' = StateClear(fsm, u)
            /\ UNCHANGED <<db, frames>>
       ELSE IF ~Has(d0.families[fam_id].members, u)
       THEN /\ Answer(u, "main_menu") /\ fsm' = StateClear(fsm, u)
            /\ UNCHANGED <<db, frames>>
       ELSE IF ~diskOk
       THEN Answer(u, "exception") /\ UNCHANGED <<db, fsm, frames>>
       ELSE /\ atomic_save_db(d1)
            /\ Answer(u, "family_menu")
            /\ Suspend(TailClear(u))
            /\ UNCHANGED fsm
    /\ UNCHANGED <<diskOk, sched, now, nextFam, nextTask, nextKey, shown,
                   fanout, reminded>>
    /\ UNCHANGED <<store, delivery>>


new_task_from_menu(u) ==
    /\ Reaches(u, 6)
    /\ HasSlot
    /\ IF NoFamily(load_db, CurrentFamily(load_db, u))
       THEN Answer(u, "main_menu") /\ UNCHANGED <<frames, shown>>
       ELSE /\ Answer(u, "task_types")
            /\ Show(u, {<<"task_type">>})
            /\ Suspend(TailSet(u, "create_task_type"))
    /\ UNCHANGED <<db, diskOk, fsm, sched, now, nextFam, nextTask, nextKey,
                   fanout, reminded>>
    /\ UNCHANGED <<store, delivery>>

\* --------------------------------------------------------------- join
join_family(u) ==
    /\ Reaches(u, 7)
    /\ fsm' = SetState(fsm, u, "join_key")
    /\ Answer(u, "cancel_kb")
    /\ UNCHANGED <<db, diskOk, frames, sched, now, nextFam, nextTask, nextKey,
                   shown, fanout, reminded>>
    /\ UNCHANGED <<store, delivery>>

\* the first family, in the order of the document, whose key is valid
RECURSIVE FindFamily(_, _, _)
FindFamily(d, key_input, ids) ==
    IF ids = {} THEN NO_FAMILY
    ELSE LET f == CHOOSE x \in ids : \A y \in ids : x <= y IN
         IF is_key_valid(key_input, d.families[f])[1] THEN f
         ELSE FindFamily(d, key_input, ids \ {f})

\* a family in which no nickname ever counts as taken
NickNeverTaken(fam, nick) == FALSE
\* the nickname the key step suggests: first_name, then first_name_1, ...
NickTaken(fam, nick) == \E m \in DOMAIN fam.members : fam.members[m].nick = nick
SuggestedNick(fam, base) == IF NickTaken(fam, base) THEN <<base, 1>> ELSE <<base, 0>>

join_key_handler(u, key_input) ==
    LET d == load_db
        found_family == FindFamily(d, key_input, DOMAIN d.families)
        fam == d.families[found_family] IN
    /\ InState(u, "join_key")
    /\ IF found_family = NO_FAMILY
       THEN Answer(u, "bad_key") /\ UNCHANGED fsm
       ELSE IF Cardinality(DOMAIN fam.members) >= MAX_FREE_MEMBERS
       THEN Answer(u, "family_full") /\ fsm' = StateClear(fsm, u)
       ELSE /\ fsm' = SetState(UpdateData(UpdateData(fsm, u,
                          "fam_id", found_family),
                          u, "suggested_nick", SuggestedNick(fam, FirstName(u))),
                          u, "join_nick")
            /\ Answer(u, "cancel_kb")
    /\ UNCHANGED <<db, diskOk, frames, sched, now, nextFam, nextTask, nextKey,
                   shown, fanout, reminded>>
    /\ UNCHANGED <<store, delivery>>

\* notify_family: the members of the family in the document at the call
Recipients(d, fam_id) ==
    IF Has(d.families, fam_id) THEN DOMAIN d.families[fam_id].members ELSE {}
notify_family(d, fam_id, kind) ==
    fanout' = [fam |-> fam_id, kind |-> kind, to |-> Recipients(d, fam_id)]

join_nick_handler(u, nick) ==
    LET fam_id == Get(fsm[u].data, "fam_id", NO_FAMILY)
        d0 == load_db
        d1 == SetDefaultUser(d0, u)
        d2 == [d1 EXCEPT
                 !.families[fam_id].members =
                     Put(@, u, [nick |-> nick, joined |-> now]),
                 !.users[u].families =
                     IF InList(@, fam_id) THEN @ ELSE Append(@, fam_id),
                 !.users[u].current_family = fam_id,
                 !.families[fam_id].active_key = generate_family_key] IN
    /\ InState(u, "join_nick")
    /\ HasSlot
    /\ IF nick = ""
       THEN Answer(u, "retry")
            /\ UNCHANGED <<db, fsm, frames, fanout, nextKey>>
       ELSE IF fam_id = NO_FAMILY \/ ~Has(d0.families, fam_id)
       THEN /\ Answer(u, "main_menu") /\ fsm' = StateClear(fsm, u)
            /\ UNCHANGED <<db, frames, fanout, nextKey>>
       ELSE IF NickTaken(d0.families[fam_id], nick)
       THEN Answer(u, "nick_taken")
            /\ UNCHANGED <<db, fsm, frames, fanout, nextKey>>
       ELSE /\ nextKey <= MaxKeys
            /\ nextKey' = nextKey + 1
            /\ IF ~diskOk
               THEN Answer(u, "exception")
                    /\ UNCHANGED <<db, fsm, frames, fanout>>
               ELSE /\ atomic_save_db(d2)
                    /\ notify_family(d2, fam_id, "joined")
                    /\ Answer(u, "family_menu")
                    /\ Suspend(TailClear(u))
                    /\ UNCHANGED fsm
    /\ UNCHANGED <<diskOk, sched, now, nextFam, nextTask, shown, reminded>>
    /\ UNCHANGED <<store, delivery>>

\* ----------------------------------------------------------- timezone
set_timezone(u) ==
    /\ Reaches(u, 11)
    /\ fsm' = SetState(fsm, u, "settings_timezone")
    /\ Answer(u, "timezone_kb")
    /\ UNCHANGED <<db, diskOk, frames, sched, now, nextFam, nextTask, nextKey,
                   shown, fanout, reminded>>
    /\ UNCHANGED <<store, delivery>>

\* offset is <<the parsed offset>>; None when no number is recognised
set_timezone_handler(u, offset) ==
    LET d1 == [SetDefaultUser(load_db, u) EXCEPT !.users[u].tz = offset[1]] IN
    /\ InState(u, "settings_timezone")
    /\ HasSlot
    /\ IF offset = None \/ offset[1] < 0 - 12 \/ offset[1] > 14
       THEN Answer(u, "retry") /\ UNCHANGED <<db, frames>>
       ELSE IF ~diskOk
       THEN Answer(u, "exception") /\ UNCHANGED <<db, frames>>
       ELSE /\ atomic_save_db(d1)
            /\ Answer(u, "main_menu")
            /\ Suspend(TailClear(u))
    /\ UNCHANGED <<diskOk, fsm, sched, now, nextFam, nextTask, nextKey,
                   shown, fanout, reminded>>
    /\ UNCHANGED <<store, delivery>>


\* -------------------------------------------------------- family menu
leave_family_menu(u) ==
    /\ Reaches(u, 14)
    /\ HasSlot
    /\ IF NoFamily(load_db, CurrentFamily(load_db, u))
       THEN Answer(u, "main_menu") /\ UNCHANGED <<frames, shown>>
       ELSE \* the question names the family
            /\ Answer(u, "confirm_leave")
            /\ Show(u, {<<"confirm_leave", CurrentFamily(load_db, u)>>})
            /\ Suspend(TailSet(u, "leave_family_confirm"))
    /\ UNCHANGED <<db, diskOk, fsm, sched, now, nextFam, nextTask, nextKey,
                   fanout, reminded>>
    /\ UNCHANGED <<store, delivery>>

\* a leave that removes the member and keeps the family whatever is left
LeaveKeepsFamily(d, uid, fam_id) ==
    [d EXCEPT !.families[fam_id].members = Pop(@, uid),
              !.users[uid].families = ListRemove(@, fam_id),
              !.users[uid].current_family = NO_FAMILY]

\* the snapshot leave_family_confirm builds before it notifies
LeaveSnapshot(d, uid, fam_id) ==
    LET d1 == [d EXCEPT
                 !.families[fam_id].members = Pop(@, uid),
                 !.users[uid].families = ListRemove(@, fam_id),
                 !.users[uid].current_family = NO_FAMILY] IN
    IF DOMAIN d1.families[fam_id].members = {}
    THEN [d1 EXCEPT !.families = Pop(@, fam_id)]
    ELSE d1

\* notify_creator: one message to the creator named in the document
notify_creator(d, fam_id, kind) ==
    fanout' = [fam |-> fam_id, kind |-> kind,
               to |-> IF Has(d.families, fam_id)
                      THEN {d.families[fam_id].creator_id} ELSE {}]

\* yes is whether the text is the confirmation button's
leave_family_confirm(u, yes) ==
    LET d0 == load_db
        fam_id == CurrentFamily(d0, u)
        d1 == LeaveSnapshot(d0, u, fam_id) IN
    /\ InState(u, "leave_family_confirm")
    /\ HasSlot
    /\ IF yes
       THEN IF ~NoFamily(d0, fam_id)
            THEN /\ IF Has(d1.families, fam_id)
                    THEN notify_family(d0, fam_id, "left")
                    ELSE notify_creator(d0, fam_id, "family_deleted")
                 /\ Suspend([kind |-> "leave", uid |-> u, db |-> d1])
                 /\ UNCHANGED reply
            ELSE /\ Answer(u, "main_menu")
                 /\ Suspend(TailClear(u))
                 /\ UNCHANGED fanout
       ELSE IF Has(d0.users, u)
            THEN /\ Answer(u, "family_menu")
                 /\ Suspend(TailClear(u))
                 /\ UNCHANGED fanout
            ELSE Answer(u, "exception") /\ UNCHANGED <<frames, fanout>>
    /\ UNCHANGED <<db, diskOk, fsm, sched, now, nextFam, nextTask, nextKey,
                   shown, reminded>>
    /\ UNCHANGED <<store, delivery>>

\* leave_family_confirm after its notification: the save and the answer
leave_family_save(i) ==
    /\ frames[i].kind = "leave"
    /\ IF diskOk
       THEN /\ atomic_save_db(frames[i].db)
            /\ Answer(frames[i].uid, "main_menu")
            /\ frames' = [frames EXCEPT ![i] = TailClear(frames[i].uid)]
       ELSE /\ UNCHANGED db
            /\ Answer(frames[i].uid, "exception")
            /\ frames' = [frames EXCEPT ![i] = Idle]
    /\ UNCHANGED <<diskOk, fsm, sched, now, nextFam, nextTask, nextKey,
                   shown, fanout, reminded>>
    /\ UNCHANGED <<store, delivery>>

IsCreator(d, uid, fam_id) ==
    ~NoFamily(d, fam_id) /\ d.families[fam_id].creator_id = uid

family_settings(u) ==
    LET d == load_db
        fam_id == CurrentFamily(d, u) IN
    /\ Reaches(u, 18)
    /\ IF NoFamily(d, fam_id)
       THEN Answer(u, "main_menu") /\ UNCHANGED shown
       ELSE IF ~IsCreator(d, u, fam_id)
       THEN Answer(u, "creator_only") /\ UNCHANGED shown
       ELSE Answer(u, "settings") /\ Show(u, {<<"fam_settings">>})
    /\ UNCHANGED <<db, diskOk, fsm, frames, sched, now, nextFam, nextTask,
                   nextKey, fanout, reminded>>
    /\ UNCHANGED <<store, delivery>>

change_name_start(u) ==
    /\ <<"fam_settings">> \in shown[u]
    /\ fsm' = SetState(fsm, u, "change_name")
    /\ Answer(u, "cancel_kb")
    /\ UNCHANGED <<db, diskOk, frames, sched, now, nextFam, nextTask, nextKey,
                   shown, fanout, reminded>>
    /\ UNCHANGED <<store, delivery>>

change_name_handler(u, new_name) ==
    LET d0 == load_db
        fam_id == CurrentFamily(d0, u)
        d1 == [d0 EXCEPT !.families[fam_id].name = new_name] IN
    /\ InState(u, "change_name")
    /\ HasSlot
    /\ IF new_name = ""
       THEN Answer(u, "retry") /\ UNCHANGED <<db, fsm, frames, fanout>>
       ELSE IF NoFamily(d0, fam_id)
       THEN /\ Answer(u, "main_menu") /\ fsm' = StateClear(fsm, u)
            /\ UNCHANGED <<db, frames, fanout>>
       ELSE IF ~diskOk
       THEN Answer(u, "exception") /\ UNCHANGED <<db, fsm, frames, fanout>>
       ELSE /\ atomic_save_db(d1)
            /\ notify_family(d1, fam_id, "renamed")
            /\ Answer(u, "family_menu")
            /\ Suspend(TailClear(u))
            /\ UNCHANGED fsm
    /\ UNCHANGED <<diskOk, sched, now, nextFam, nextTask, nextKey, shown,
                   reminded>>
    /\ UNCHANGED <<store, delivery>>

generate_new_key(u) ==
    LET d0 == load_db
        fam_id == CurrentFamily(d0, u)
        d1 == [d0 EXCEPT !.families[fam_id].active_key = generate_family_key] IN
    /\ <<"fam_settings">> \in shown[u]
    /\ IF ~IsCreator(d0, u, fam_id)
       THEN Answer(u, "creator_only") /\ UNCHANGED <<db, nextKey>>
       ELSE /\ nextKey <= MaxKeys
            /\ nextKey' = nextKey + 1
            /\ IF diskOk
               THEN atomic_save_db(d1) /\ Answer(u, "new_key")
               ELSE UNCHANGED db /\ Answer(u, "exception")
    /\ UNCHANGED <<diskOk, fsm, frames, sched, now, nextFam, nextTask, shown,
                   fanout, reminded>>
    /\ UNCHANGED <<store, delivery>>

delete_family_confirm(u) ==
    /\ <<"fam_settings">> \in shown[u]
    /\ Show(u, {<<"delete_confirm">>})
    /\ Answer(u, "confirm_delete")
    /\ UNCHANGED <<db, diskOk, fsm, frames, sched, now, nextFam, nextTask,
                   nextKey, fanout, reminded>>
    /\ UNCHANGED <<store, delivery>>

\* a delete that removes the family and leaves the user records alone
DeleteFamilyOnly(d, fam_id) == [d EXCEPT !.families = Pop(@, fam_id)]

\* the store without the family, and without its id in every user record
DeleteSnapshot(d, fam_id) ==
    [families |-> Pop(d.families, fam_id),
     users |-> [x \in DOMAIN d.users |->
                  [d.users[x] EXCEPT
                     !.families = ListRemove(@, fam_id),
                     !.current_family = IF @ = fam_id THEN NO_FAMILY ELSE @]]]

delete_family(u) ==
    LET d0 == load_db
        fam_id == CurrentFamily(d0, u) IN
    /\ <<"delete_confirm">> \in shown[u]
    /\ IF ~IsCreator(d0, u, fam_id)
       THEN Answer(u, "access_error") /\ UNCHANGED db
       ELSE IF diskOk
       THEN atomic_save_db(DeleteSnapshot(d0, fam_id)) /\ Answer(u, "main_menu")
       ELSE UNCHANGED db /\ Answer(u, "exception")
    /\ UNCHANGED <<diskOk, fsm, frames, sched, now, nextFam, nextTask, nextKey,
                   shown, fanout, reminded>>
    /\ UNCHANGED <<store, delivery>>

return_to_main_menu(u) ==
    LET d0 == load_db
        d1 == IF Has(d0.users, u)
              THEN [d0 EXCEPT !.users[u].current_family = NO_FAMILY] ELSE d0 IN
    /\ Reaches(u, 25)
    /\ fsm' = StateClear(fsm, u)
    /\ IF diskOk
       THEN atomic_save_db(d1) /\ Answer(u, "main_menu")
       ELSE UNCHANGED db /\ Answer(u, "exception")
    /\ UNCHANGED <<diskOk, frames, sched, now, nextFam, nextTask, nextKey,
                   shown, fanout, reminded>>
    /\ UNCHANGED <<store, delivery>>

change_nick(u) ==
    /\ Reaches(u, 26)
    /\ IF NoFamily(load_db, CurrentFamily(load_db, u))
       THEN Answer(u, "main_menu") /\ UNCHANGED fsm
       ELSE Answer(u, "cancel_kb") /\ fsm' = SetState(fsm, u, "change_nick")
    /\ UNCHANGED <<db, diskOk, frames, sched, now, nextFam, nextTask, nextKey,
                   shown, fanout, reminded>>
    /\ UNCHANGED <<store, delivery>>

change_nick_handler(u, nick) ==
    LET d0 == load_db
        fam_id == CurrentFamily(d0, u)
        d1 == [d0 EXCEPT !.families[fam_id].members[u].nick = nick] IN
    /\ InState(u, "change_nick")
    /\ HasSlot
    /\ IF nick = ""
       THEN Answer(u, "retry") /\ UNCHANGED <<db, fsm, frames>>
       ELSE IF NoFamily(d0, fam_id)
       THEN /\ Answer(u, "main_menu") /\ fsm' = StateClear(fsm, u)
            /\ UNCHANGED <<db, frames>>
       ELSE IF ~Has(d0.families[fam_id].members, u)
       THEN /\ Answer(u, "not_a_member") /\ fsm' = StateClear(fsm, u)
            /\ UNCHANGED <<db, frames>>
       ELSE IF ~diskOk
       THEN Answer(u, "exception") /\ UNCHANGED <<db, fsm, frames>>
       ELSE /\ atomic_save_db(d1)
            /\ Answer(u, "family_menu")
            /\ Suspend(TailClear(u))
            /\ UNCHANGED fsm
    /\ UNCHANGED <<diskOk, sched, now, nextFam, nextTask, nextKey, shown,
                   fanout, reminded>>
    /\ UNCHANGED <<store, delivery>>


\* --------------------------------------------------------- task views
OpenTasks(d, fam_id) == d.families[fam_id].tasks
ClosedTasks(d, fam_id) == d.families[fam_id].completed_tasks

tasks_list(u) ==
    LET d == load_db
        fam_id == CurrentFamily(d, u) IN
    /\ Reaches(u, 20)
    /\ IF NoFamily(d, fam_id)
       THEN Answer(u, "main_menu") /\ UNCHANGED shown
       ELSE IF DOMAIN OpenTasks(d, fam_id) = {}
       THEN Answer(u, "family_menu") /\ UNCHANGED shown
       ELSE /\ Answer(u, "tasks")
            /\ Show(u, {<<"task_edit", t>> : t \in DOMAIN OpenTasks(d, fam_id)}
                       \cup {<<"tasks_new">>})
    /\ UNCHANGED <<db, diskOk, fsm, frames, sched, now, nextFam, nextTask,
                   nextKey, fanout, reminded>>
    /\ UNCHANGED <<store, delivery>>

\* the "tasks:list" button: the list again, whatever the conversation state
back_to_tasks(u) ==
    LET d == load_db
        fam_id == CurrentFamily(d, u) IN
    /\ <<"tasks_list">> \in shown[u]
    /\ IF NoFamily(d, fam_id)
       THEN Answer(u, "access_error") /\ UNCHANGED shown
       ELSE IF DOMAIN OpenTasks(d, fam_id) = {}
               /\ DOMAIN ClosedTasks(d, fam_id) = {}
       THEN Answer(u, "family_menu") /\ UNCHANGED shown
       ELSE /\ Answer(u, "tasks")
            /\ Show(u, {<<"task_edit", t>> : t \in DOMAIN OpenTasks(d, fam_id)}
                       \cup {<<"tasks_new">>})
    /\ UNCHANGED <<db, diskOk, fsm, frames, sched, now, nextFam, nextTask,
                   nextKey, fanout, reminded>>
    /\ UNCHANGED <<store, delivery>>

Min(a, b) == IF a < b THEN a ELSE b

\* the buttons edit_task puts under a task
TaskButtons(task, task_id) ==
    (IF task.type # "shopping" /\ task.progress < 100
     THEN {<<"quickpct", task_id, Min(100, task.progress + 25)>>} ELSE {})
    \cup (IF task.type = "shopping" THEN {<<"task_items", task_id>>} ELSE {})
    \cup {<<"task_progress", task_id>>}
    \cup (IF task.progress < 100 THEN {<<"task_complete", task_id>>} ELSE {})
    \cup {<<"tasks_list">>}

edit_task(u, task_id) ==
    LET d == load_db
        fam_id == CurrentFamily(d, u) IN
    /\ <<"task_edit", task_id>> \in shown[u]
    /\ IF NoFamily(d, fam_id)
       THEN Answer(u, "access_error") /\ UNCHANGED shown
       ELSE IF ~Has(OpenTasks(d, fam_id), task_id)
       THEN Answer(u, "task_not_found") /\ UNCHANGED shown
       ELSE /\ Answer(u, "task_menu")
            /\ Show(u, TaskButtons(OpenTasks(d, fam_id)[task_id], task_id))
    /\ UNCHANGED <<db, diskOk, fsm, frames, sched, now, nextFam, nextTask,
                   nextKey, fanout, reminded>>
    /\ UNCHANGED <<store, delivery>>

\* ------------------------------------------------- create-task wizard
new_task_start(u) ==
    /\ <<"tasks_new">> \in shown[u]
    /\ HasSlot
    /\ Answer(u, "task_types")
    /\ Show(u, {<<"task_type">>})
    /\ Suspend(TailSet(u, "create_task_type"))
    /\ UNCHANGED <<db, diskOk, fsm, sched, now, nextFam, nextTask, nextKey,
                   fanout, reminded>>
    /\ UNCHANGED <<store, delivery>>

task_type_selected(u, task_type) ==
    /\ <<"task_type">> \in shown[u]
    /\ IF task_type = "shopping"
       THEN /\ fsm' = SetState(UpdateData(fsm, u, "task_type", "shopping"),
                               u, "create_task_shop_category")
            /\ Show(u, {<<"shop_cat">>})
            /\ Answer(u, "shop_categories")
       ELSE /\ fsm' = SetState(UpdateData(UpdateData(fsm, u,
                                   "task_type", task_type),
                                   u, "display_type", DisplayType(task_type)),
                               u, "create_task_desc")
            /\ Answer(u, "cancel_kb")
            /\ UNCHANGED shown
    /\ UNCHANGED <<db, diskOk, frames, sched, now, nextFam, nextTask, nextKey,
                   fanout, reminded>>
    /\ UNCHANGED <<store, delivery>>

shop_category_selected(u, category) ==
    /\ <<"shop_cat">> \in shown[u]
    /\ fsm' = SetState(UpdateData(fsm, u, "shop_category", category),
                       u, "create_task_shop_items")
    /\ Answer(u, "cancel_kb")
    /\ UNCHANGED <<db, diskOk, frames, sched, now, nextFam, nextTask, nextKey,
                   shown, fanout, reminded>>
    /\ UNCHANGED <<store, delivery>>

\* the parsed lines of the message: n non-blank lines give n items
ItemNames(n) == [i \in 1..n |-> i]
Quantities(n) == [i \in 1..n |-> "1"]
MAX_SHOP_ITEMS == 50
MAX_DESC_LEN == 200

shop_items_handler(u, n) ==
    LET category == Get(fsm[u].data, "shop_category", "other") IN
    /\ InState(u, "create_task_shop_items")
    /\ IF n = 0
       THEN Answer(u, "retry") /\ UNCHANGED fsm
       ELSE IF n > MAX_SHOP_ITEMS
       THEN Answer(u, "retry") /\ UNCHANGED fsm
       ELSE /\ fsm' = SetState(UpdateData(UpdateData(UpdateData(UpdateData(
                          fsm, u, "desc", "shop"),
                          u, "items", ItemNames(n)),
                          u, "quantities", Quantities(n)),
                          u, "shop_category", category),
                          u, "create_task_deadline")
            /\ Answer(u, "cancel_kb")
    /\ UNCHANGED <<db, diskOk, frames, sched, now, nextFam, nextTask, nextKey,
                   shown, fanout, reminded>>
    /\ UNCHANGED <<store, delivery>>

\* desc is the stripped text, len its length
task_desc_handler(u, desc, len) ==
    /\ InState(u, "create_task_desc")
    /\ IF len = 0 \/ len > MAX_DESC_LEN
       THEN Answer(u, "retry") /\ UNCHANGED fsm
       ELSE /\ fsm' = SetState(UpdateData(fsm, u, "desc", desc),
                               u, "create_task_deadline")
            /\ Answer(u, "cancel_kb")
    /\ UNCHANGED <<db, diskOk, frames, sched, now, nextFam, nextTask, nextKey,
                   shown, fanout, reminded>>
    /\ UNCHANGED <<store, delivery>>


\* a deadline step that stores the field and never calls create_task_finish
NoFinish(u, f, i) ==
    /\ fsm' = f
    /\ UNCHANGED <<frames, nextTask, reply>>

\* create_task_finish up to its loading animation, run by the coroutine
\* of slot i with the FSM as f: the scratch data and the snapshot are read,
\* the task id is drawn, and the handler waits in show_loading
CtfStart(u, f, i) ==
    LET d == load_db
        fam_id == CurrentFamily(d, u) IN
    /\ fsm' = f
    /\ IF NoFamily(d, fam_id)
       THEN /\ Answer(u, "main_menu")
            /\ frames' = [frames EXCEPT ![i] = CtfTail(u)]
            /\ UNCHANGED nextTask
       ELSE /\ nextTask <= MaxTasks
            /\ nextTask' = nextTask + 1
            /\ frames' = [frames EXCEPT ![i] =
                   [kind |-> "ctf", uid |-> u, data |-> f[u].data, db |-> d,
                    fam_id |-> fam_id, task_id |-> nextTask,
                    nick |-> IF Has(d.families[fam_id].members, u)
                             THEN d.families[fam_id].members[u].nick
                             ELSE DEFAULT_NICK]]
            /\ UNCHANGED reply

\* inp is what the text parses to: "none" (no deadline), "invalid", or a
\* date at clock value inp.at
task_deadline_handler(u, inp) ==
    LET data == fsm[u].data
        f1 == UpdateData(fsm, u, "deadline",
                         IF inp.kind = "none" THEN None ELSE <<inp.at>>) IN
    /\ InState(u, "create_task_deadline")
    /\ HasSlot
    /\ IF ~Has(data, "task_type")
       THEN \* data["task_type"] raises KeyError
            /\ Answer(u, "exception")
            /\ UNCHANGED <<fsm, frames, nextTask, shown>>
       ELSE IF inp.kind = "invalid"
       THEN Answer(u, "retry") /\ UNCHANGED <<fsm, frames, nextTask, shown>>
       ELSE IF inp.kind = "date" /\ inp.at < now - GRACE
       THEN Answer(u, "retry") /\ UNCHANGED <<fsm, frames, nextTask, shown>>
       ELSE IF data["task_type"] = "shopping"
       THEN CtfStart(u, f1, Slot) /\ UNCHANGED shown
       ELSE IF inp.kind = "date"
       THEN /\ fsm' = SetState(f1, u, "create_task_reminder")
            /\ Show(u, {<<"reminder">>})
            /\ Answer(u, "reminders")
            /\ UNCHANGED <<frames, nextTask>>
       ELSE CtfStart(u, UpdateData(f1, u, "reminder_sec", 0), Slot)
            /\ UNCHANGED shown
    /\ UNCHANGED <<db, diskOk, sched, now, nextFam, nextKey, fanout, reminded>>
    /\ UNCHANGED <<store, delivery>>

reminder_selected(u, seconds) ==
    /\ <<"reminder">> \in shown[u]
    /\ HasSlot
    /\ fsm' = UpdateData(fsm, u, "reminder_sec", seconds)
    /\ Suspend([kind |-> "reminder", uid |-> u])
    /\ UNCHANGED <<db, diskOk, sched, now, nextFam, nextTask, nextKey, shown,
                   reply, fanout, reminded>>
    /\ UNCHANGED <<store, delivery>>

\* reminder_selected after cq.answer: the call of create_task_finish
reminder_selected_finish(i) ==
    /\ frames[i].kind = "reminder"
    /\ CtfStart(frames[i].uid, fsm, i)
    /\ UNCHANGED <<db, diskOk, sched, now, nextFam, nextKey, shown, fanout,
                   reminded>>
    /\ UNCHANGED <<store, delivery>>

\* the task dict create_task_finish builds from the scratch data
NewTask(uid, nick, data) ==
    [creator_id |-> uid,
     creator_nick |-> nick,
     desc |-> data["desc"],
     type |-> data["task_type"],
     display_type |-> Get(data, "display_type", "Regular"),
     deadline |-> Get(data, "deadline", None),
     reminder_sec |-> Get(data, "reminder_sec", 0),
     progress |-> 0,
     assignees |-> <<nick>>,
     updates |-> <<>>,
     items |-> Get(data, "items", <<>>),
     quantities |-> Get(data, "quantities", <<>>),
     items_checked |-> [j \in 1..Len(Get(data, "items", <<>>)) |-> FALSE],
     shop_category |-> Get(data, "shop_category", "null"),
     created_at |-> now,
     reminder_sent |-> FALSE]

\* the snapshot create_task_finish saves: its own, loaded before the
\* loading animation, with the new task
CtfSnapshot(fr) ==
    [fr.db EXCEPT !.families[fr.fam_id].tasks =
        Put(@, fr.task_id, NewTask(fr.uid, fr.nick, fr.data))]

\* create_task_finish after show_loading: the task is built and saved and
\* the family is notified; the answer and state.clear() are left
create_task_finish(i) ==
    LET fr == frames[i] IN
    /\ fr.kind = "ctf"
    /\ IF ~Has(fr.data, "desc") \/ ~Has(fr.data, "task_type") \/ ~diskOk
       THEN \* KeyError, or atomic_save_db raises
            /\ Answer(fr.uid, "exception")
            /\ frames' = [frames EXCEPT ![i] = Idle]
            /\ UNCHANGED <<db, fanout>>
       ELSE /\ atomic_save_db(CtfSnapshot(fr))
            /\ notify_family(CtfSnapshot(fr), fr.fam_id, "new_task")
            /\ Answer(fr.uid, "family_menu")
            /\ frames' = [frames EXCEPT ![i] = CtfTail(fr.uid)]
    /\ UNCHANGED <<diskOk, fsm, sched, now, nextFam, nextTask, nextKey, shown,
                   reminded>>
    /\ UNCHANGED <<store, delivery>>


\* ------------------------------------------------------------ progress
IsMember(d, uid, fam_id) == Has(d.families[fam_id].members, uid)
NickOf(d, uid, fam_id) == d.families[fam_id].members[uid].nick

\* a closing transition that leaves the task among the open ones
CopyToCompleted(d, fam_id, task_id, task) ==
    [d EXCEPT !.families[fam_id].completed_tasks = Put(@, task_id, task)]

\* a closing transition that writes the task back among the open ones
StayOpen(d, fam_id, task_id, task) ==
    [d EXCEPT !.families[fam_id].tasks[task_id] = task]

\* the closing transition: the task leaves tasks and enters completed_tasks
MoveToCompleted(d, fam_id, task_id, task) ==
    [d EXCEPT !.families[fam_id].completed_tasks = Put(@, task_id, task),
              !.families[fam_id].tasks = Pop(@, task_id)]

SetTask(d, fam_id, task_id, task) ==
    [d EXCEPT !.families[fam_id].tasks[task_id] = task]

ProgressEntry(nick, old_pct, new_pct) ==
    [user |-> nick, from |-> old_pct, to |-> new_pct, timestamp |-> now]

\* quick_progress: the task with the new percent and the log entry, and
\* with the completion stamps at 100
QuickProgressTask(task, nick, new_pct) ==
    LET t1 == [task EXCEPT !.progress = new_pct,
                           !.updates = Append(@, ProgressEntry(nick, task.progress, new_pct))] IN
    IF new_pct = 100
    THEN Put(Put(t1, "completed_at", now), "completed_by", nick)
    ELSE t1

quick_progress(u, task_id, new_pct) ==
    LET d0 == load_db
        fam_id == CurrentFamily(d0, u)
        task == OpenTasks(d0, fam_id)[task_id]
        nick == NickOf(d0, u, fam_id)
        t1 == QuickProgressTask(task, nick, new_pct)
        d1 == IF new_pct = 100 THEN MoveToCompleted(d0, fam_id, task_id, t1)
              ELSE SetTask(d0, fam_id, task_id, t1) IN
    /\ <<"quickpct", task_id, new_pct>> \in shown[u]
    /\ IF NoFamily(d0, fam_id)
       THEN Answer(u, "access_error") /\ UNCHANGED <<db, fanout, shown>>
       ELSE IF ~IsMember(d0, u, fam_id)
       THEN Answer(u, "exception") /\ UNCHANGED <<db, fanout, shown>>
       ELSE IF ~Has(OpenTasks(d0, fam_id), task_id)
       THEN Answer(u, "task_not_found") /\ UNCHANGED <<db, fanout, shown>>
       ELSE IF ~diskOk
       THEN Answer(u, "exception") /\ UNCHANGED <<db, fanout, shown>>
       ELSE /\ Len(task.updates) < MaxUpdates
            /\ atomic_save_db(d1)
            /\ notify_family(d1, fam_id, "progress")
            /\ IF new_pct = 100
               THEN Answer(u, "task_done") /\ Show(u, {<<"tasks_list">>})
               ELSE Answer(u, "task_menu") /\ Show(u, TaskButtons(t1, task_id))
    /\ UNCHANGED <<diskOk, fsm, frames, sched, now, nextFam, nextTask, nextKey,
                   reminded>>
    /\ UNCHANGED <<store, delivery>>

update_progress_start(u, task_id) ==
    /\ <<"task_progress", task_id>> \in shown[u]
    /\ fsm' = SetState(UpdateData(fsm, u, "task_id", task_id),
                       u, "update_task_progress")
    /\ Answer(u, "cancel_kb")
    /\ UNCHANGED <<db, diskOk, frames, sched, now, nextFam, nextTask, nextKey,
                   shown, fanout, reminded>>
    /\ UNCHANGED <<store, delivery>>

\* update_progress_handler: at 100 the task is stamped with completed_at
ManualProgressTask(task, nick, pct) ==
    LET t1 == [task EXCEPT !.progress = pct,
                           !.updates = Append(@, ProgressEntry(nick, task.progress, pct))] IN
    IF pct = 100 THEN Put(t1, "completed_at", now) ELSE t1

\* pct is <<the integer typed>>, None when the text is no integer
update_progress_handler(u, pct) ==
    LET d0 == load_db
        fam_id == CurrentFamily(d0, u)
        task_id == fsm[u].data["task_id"]
        task == OpenTasks(d0, fam_id)[task_id]
        t1 == ManualProgressTask(task, NickOf(d0, u, fam_id), pct[1])
        d1 == IF pct[1] = 100 THEN MoveToCompleted(d0, fam_id, task_id, t1)
              ELSE SetTask(d0, fam_id, task_id, t1) IN
    /\ InState(u, "update_task_progress")
    /\ HasSlot
    /\ IF pct = None \/ pct[1] < 0 \/ pct[1] > 100
       THEN Answer(u, "retry") /\ UNCHANGED <<db, fsm, frames, fanout>>
       ELSE IF ~Has(fsm[u].data, "task_id")
       THEN Answer(u, "exception") /\ UNCHANGED <<db, fsm, frames, fanout>>
       ELSE IF NoFamily(d0, fam_id) \/ ~IsMember(d0, u, fam_id)
       THEN \* the nickname lookup raises KeyError before the family check
            Answer(u, "exception") /\ UNCHANGED <<db, fsm, frames, fanout>>
       ELSE IF ~Has(OpenTasks(d0, fam_id), task_id)
       THEN /\ Answer(u, "task_not_found") /\ fsm' = StateClear(fsm, u)
            /\ UNCHANGED <<db, frames, fanout>>
       ELSE IF ~diskOk
       THEN Answer(u, "exception") /\ UNCHANGED <<db, fsm, frames, fanout>>
       ELSE /\ Len(task.updates) < MaxUpdates
            /\ atomic_save_db(d1)
            /\ notify_family(d1, fam_id, "progress")
            /\ Answer(u, "family_menu")
            /\ Suspend(TailClear(u))
            /\ UNCHANGED fsm
    /\ UNCHANGED <<diskOk, sched, now, nextFam, nextTask, nextKey, shown,
                   reminded>>
    /\ UNCHANGED <<store, delivery>>

show_shopping_list(u, task_id) ==
    LET d == load_db
        fam_id == CurrentFamily(d, u)
        task == OpenTasks(d, fam_id)[task_id] IN
    /\ <<"task_items", task_id>> \in shown[u]
    /\ IF NoFamily(d, fam_id)
       THEN Answer(u, "access_error") /\ UNCHANGED shown
       ELSE IF ~Has(OpenTasks(d, fam_id), task_id) \/ task.type # "shopping"
       THEN Answer(u, "task_not_found") /\ UNCHANGED shown
       ELSE /\ Answer(u, "items")
            /\ Show(u, {<<"item_check", task_id, j>> :
                          j \in {k \in 1..Len(task.items) : ~task.items_checked[k]}})
    /\ UNCHANGED <<db, diskOk, fsm, frames, sched, now, nextFam, nextTask,
                   nextKey, fanout, reminded>>
    /\ UNCHANGED <<store, delivery>>

AllChecked(checked) == \A j \in 1..Len(checked) : checked[j]

\* check_item on an unchecked item: the mark, the log entry and, when every
\* item is checked, the closing stamps
CheckedTask(task, nick, item_idx) ==
    LET t1 == [task EXCEPT
                 !.items_checked[item_idx] = TRUE,
                 !.updates = Append(@, [user |-> nick, action |-> "checked",
                                        item |-> task.items[item_idx],
                                        timestamp |-> now])] IN
    IF AllChecked(t1.items_checked)
    THEN Put(Put([t1 EXCEPT !.progress = 100], "completed_at", now),
             "completed_by", nick)
    ELSE t1

check_item(u, task_id, item_idx) ==
    LET d0 == load_db
        fam_id == CurrentFamily(d0, u)
        task == OpenTasks(d0, fam_id)[task_id]
        t1 == CheckedTask(task, NickOf(d0, u, fam_id), item_idx)
        d1 == IF AllChecked(t1.items_checked)
              THEN MoveToCompleted(d0, fam_id, task_id, t1)
              ELSE SetTask(d0, fam_id, task_id, t1) IN
    /\ <<"item_check", task_id, item_idx>> \in shown[u]
    /\ IF NoFamily(d0, fam_id)
       THEN Answer(u, "access_error") /\ UNCHANGED <<db, fanout>>
       ELSE IF ~IsMember(d0, u, fam_id)
       THEN Answer(u, "exception") /\ UNCHANGED <<db, fanout>>
       ELSE IF ~Has(OpenTasks(d0, fam_id), task_id) \/ task.type # "shopping"
       THEN Answer(u, "task_not_found") /\ UNCHANGED <<db, fanout>>
       ELSE IF item_idx > Len(task.items)
       THEN Answer(u, "exception") /\ UNCHANGED <<db, fanout>>
       ELSE IF task.items_checked[item_idx]
       THEN Answer(u, "already_checked") /\ UNCHANGED <<db, fanout>>
       ELSE IF ~diskOk
       THEN Answer(u, "exception") /\ UNCHANGED <<db, fanout>>
       ELSE /\ Len(task.updates) < MaxUpdates
            /\ atomic_save_db(d1)
            /\ IF AllChecked(t1.items_checked)
               THEN notify_family(d1, fam_id, "list_done") /\ Answer(u, "task_done")
               ELSE UNCHANGED fanout /\ Answer(u, "items")
    /\ UNCHANGED <<diskOk, fsm, frames, sched, now, nextFam, nextTask, nextKey,
                   shown, reminded>>
    /\ UNCHANGED <<store, delivery>>

\* complete_task: progress 100 and the completion stamps
CompletedTask(task, nick) ==
    Put(Put([task EXCEPT !.progress = 100], "completed_at", now),
        "completed_by", nick)

complete_task(u, task_id) ==
    LET d0 == load_db
        fam_id == CurrentFamily(d0, u)
        task == OpenTasks(d0, fam_id)[task_id]
        d1 == MoveToCompleted(d0, fam_id, task_id,
                              CompletedTask(task, NickOf(d0, u, fam_id))) IN
    /\ <<"task_complete", task_id>> \in shown[u]
    /\ IF NoFamily(d0, fam_id) \/ ~IsMember(d0, u, fam_id)
       THEN \* the nickname lookup raises KeyError before the family check
            Answer(u, "exception") /\ UNCHANGED <<db, fanout>>
       ELSE IF ~Has(OpenTasks(d0, fam_id), task_id)
       THEN Answer(u, "task_not_found") /\ UNCHANGED <<db, fanout>>
       ELSE IF ~diskOk
       THEN Answer(u, "exception") /\ UNCHANGED <<db, fanout>>
       ELSE /\ atomic_save_db(d1)
            /\ notify_family(d1, fam_id, "completed")
            /\ Answer(u, "task_done")
    /\ UNCHANGED <<diskOk, fsm, frames, sched, now, nextFam, nextTask, nextKey,
                   shown, reminded>>
    /\ UNCHANGED <<store, delivery>>


\* ---------------------------------------------------- reminders_loop
RECURSIVE SeqOf(_)
SeqOf(S) == IF S = {} THEN <<>>
            ELSE LET x == CHOOSE y \in S : \A z \in S : y <= z IN
                 <<x>> \o SeqOf(S \ {x})

RECURSIVE Concat(_)
Concat(ss) == IF ss = <<>> THEN <<>> ELSE Head(ss) \o Concat(Tail(ss))

\* every (family, open task) of the snapshot, in the order of the two loops
ScanOrder(d) ==
    Concat([i \in 1..Len(SeqOf(DOMAIN d.families)) |->
              LET f == SeqOf(DOMAIN d.families)[i]
                  ts == SeqOf(DOMAIN d.families[f].tasks) IN
              [j \in 1..Len(ts) |-> <<f, ts[j]>>]])

\* a window that is still open at the deadline and after it
DueAlsoPast(task, t) ==
    /\ ~task.reminder_sent
    /\ task.deadline # None
    /\ task.reminder_sec > 0
    /\ task.deadline[1] - t <= task.reminder_sec

\* the three skips of the loop and the window 0 < deadline - now <= lead
Due(task, t) ==
    /\ ~task.reminder_sent
    /\ task.deadline # None
    /\ task.reminder_sec > 0
    /\ 0 < task.deadline[1] - t
    /\ task.deadline[1] - t <= task.reminder_sec

MarkSent(d, f, t) == [d EXCEPT !.families[f].tasks[t].reminder_sent = TRUE]

\* the loop from its position todo over the snapshot d, up to its next
\* suspension: tasks that are not due are skipped; a due task whose family
\* has no member in the document is marked without any delivery
RECURSIVE ScanTo(_, _, _, _)
ScanTo(d, todo, t, updated) ==
    IF todo = <<>> THEN [db |-> d, todo |-> todo, updated |-> updated]
    ELSE LET f == Head(todo)[1]
             k == Head(todo)[2] IN
         IF ~Due(d.families[f].tasks[k], t)
         THEN ScanTo(d, Tail(todo), t, updated)
         ELSE IF Recipients(load_db, f) = {}
         THEN ScanTo(MarkSent(d, f, k), Tail(todo), t, TRUE)
         ELSE [db |-> d, todo |-> todo, updated |-> updated]

\* the loop runs to the next task that is due, notifies the family and
\* waits for the deliveries; at the end of the scan it saves the snapshot
\* if a task was marked (a failure of the save is logged)
Scan(d, todo, t, updated) ==
    LET r == ScanTo(d, todo, t, updated) IN
    IF r.todo # <<>>
    THEN /\ reminded[Head(r.todo)[2]] < MaxReminders
         /\ notify_family(load_db, Head(r.todo)[1], "reminder")
         /\ reminded' = [reminded EXCEPT ![Head(r.todo)[2]] = @ + 1]
         /\ sched' = [pc |-> "notify", db |-> r.db, now |-> t,
                      todo |-> r.todo, updated |-> r.updated]
         /\ UNCHANGED db
    ELSE /\ IF r.updated /\ diskOk THEN atomic_save_db(r.db) ELSE UNCHANGED db
         /\ sched' = SchedIdle
         /\ UNCHANGED <<fanout, reminded>>

\* a tick: the sleep is over, the document is loaded and the scan starts
reminders_loop ==
    /\ sched.pc = "sleep"
    /\ Scan(load_db, ScanOrder(load_db), now, FALSE)
    /\ UNCHANGED <<diskOk, fsm, frames, now, nextFam, nextTask, nextKey,
                   shown, reply>>
    /\ UNCHANGED <<store, delivery>>

\* the deliveries are over: the task is marked in the snapshot of the tick
\* and the scan goes on
reminders_resume ==
    LET f == Head(sched.todo)[1]
        t == Head(sched.todo)[2] IN
    /\ sched.pc = "notify"
    /\ Scan(MarkSent(sched.db, f, t), Tail(sched.todo), sched.now, TRUE)
    /\ UNCHANGED <<diskOk, fsm, frames, now, nextFam, nextTask, nextKey,
                   shown, reply>>
    /\ UNCHANGED <<store, delivery>>

\* ------------------------------- notify_family, one delivery at a time
\* The handlers above record a call of notify_family as its batch.  These
\* actions follow one call through its loop: the members it loaded, in the
\* order of the document, one send_message each.
notify_family_begin ==
    /\ delivery.pc # "loop"
    /\ fanout.kind \notin {"none", "family_deleted"}
    /\ delivery.batch # fanout
    /\ delivery' = [pc |-> "loop", batch |-> fanout, todo |-> SeqOf(fanout.to),
                    got |-> [m \in fanout.to |-> 0], failed |-> {},
                    raised |-> FALSE]
    /\ UNCHANGED <<bot, store>>

\* a loop without try: the first failed delivery ends the call with the
\* error
notify_family_send_unguarded(ok) ==
    /\ delivery.pc = "loop"
    /\ delivery.todo # <<>>
    /\ delivery' = IF ok
                   THEN [delivery EXCEPT !.todo = Tail(@),
                                         !.got[Head(delivery.todo)] = @ + 1]
                   ELSE [delivery EXCEPT !.pc = "done", !.raised = TRUE,
                                         !.failed = @ \cup {Head(delivery.todo)}]
    /\ UNCHANGED <<bot, store>>

\* one turn of the loop: send_message delivers (ok) or raises, and the
\* except clause logs the error; the loop goes on with the next member
notify_family_send(ok) ==
    /\ delivery.pc = "loop"
    /\ delivery.todo # <<>>
    /\ delivery' = IF ok
                   THEN [delivery EXCEPT !.todo = Tail(@),
                                         !.got[Head(delivery.todo)] = @ + 1]
                   ELSE [delivery EXCEPT !.todo = Tail(@),
                                         !.failed = @ \cup {Head(delivery.todo)}]
    /\ UNCHANGED <<bot, store>>

\* the loop is over: the call returns None to the handler
notify_family_return ==
    /\ delivery.pc = "loop"
    /\ delivery.todo = <<>>
    /\ delivery' = [delivery EXCEPT !.pc = "done"]
    /\ UNCHANGED <<bot, store>>

\* -------------------------------------------------------- environment
Advance ==
    /\ now < MaxTime
    /\ now' = now + 1
    /\ UNCHANGED <<db, diskOk, fsm, frames, sched, nextFam, nextTask, nextKey,
                   shown, reply, fanout, reminded>>
    /\ UNCHANGED <<store, delivery>>

DiskFails ==
    /\ diskOk
    /\ diskOk' = FALSE
    /\ UNCHANGED <<db, fsm, frames, sched, now, nextFam, nextTask, nextKey,
                   shown, reply, fanout, reminded>>
    /\ UNCHANGED <<store, delivery>>

DiskRecovers ==
    /\ ~diskOk
    /\ diskOk' = TRUE
    /\ UNCHANGED <<db, fsm, frames, sched, now, nextFam, nextTask, nextKey,
                   shown, reply, fanout, reminded>>
    /\ UNCHANGED <<store, delivery>>

\* ------------------------------------------------------------- inputs
NickInputs == Nicks \cup {""}
KeyInputs == 1..MaxKeys
OffsetInputs == {None, <<3>>, <<15>>}
DeadlineInputs ==
    {[kind |-> "none", at |-> 0], [kind |-> "invalid", at |-> 0],
     [kind |-> "date", at |-> 0 - 7], [kind |-> "date", at |-> 2]}
PctInputs == {None, <<50>>, <<100>>, <<101>>}
ItemCounts == {0, MaxItems, MAX_SHOP_ITEMS + 1}


\* ------------------------------------------------------ specifications
Coroutines ==
    \E i \in 1..MaxFrames :
        \/ Resume(i)
        \/ ResumeFail(i)
        \/ leave_family_save(i)
        \/ reminder_selected_finish(i)
        \/ create_task_finish(i)

Commands(U) ==
    \E u \in U :
        \/ cmd_start(u)
        \/ cmd_cancel(u)
        \/ my_families(u)
        \/ return_to_main_menu(u)

Families(U) ==
    \E u \in U :
        \/ \E f \in FamIds : enter_family(u, f)
        \/ create_family_callback(u)
        \/ create_family_handler(u)
        \/ \E nick \in NickInputs : set_creator_nick_handler(u, nick)
        \/ join_family(u)
        \/ \E k \in KeyInputs : join_key_handler(u, k)
        \/ \E nick \in NickInputs : join_nick_handler(u, nick)
        \/ leave_family_menu(u)
        \/ \E yes \in BOOLEAN : leave_family_confirm(u, yes)

Settings(U) ==
    \E u \in U :
        \/ set_timezone(u)
        \/ \E o \in OffsetInputs : set_timezone_handler(u, o)
        \/ family_settings(u)
        \/ change_name_start(u)
        \/ \E n \in Names \cup {""} : change_name_handler(u, n)
        \/ generate_new_key(u)
        \/ delete_family_confirm(u)
        \/ delete_family(u)
        \/ change_nick(u)
        \/ \E nick \in NickInputs : change_nick_handler(u, nick)

Wizard(U) ==
    \E u \in U :
        \/ new_task_from_menu(u)
        \/ tasks_list(u)
        \/ back_to_tasks(u)
        \/ new_task_start(u)
        \/ \E t \in TASK_TYPES : task_type_selected(u, t)
        \/ shop_category_selected(u, "food")
        \/ \E n \in ItemCounts : shop_items_handler(u, n)
        \/ \E x \in Descs : task_desc_handler(u, x, 1)
        \/ \E len \in {0, MAX_DESC_LEN + 1} : task_desc_handler(u, "", len)
        \/ \E inp \in DeadlineInputs : task_deadline_handler(u, inp)
        \/ \E sec \in REMINDER_OPTIONS : reminder_selected(u, sec)

Progress(U) ==
    \E u \in U, t \in TaskIds :
        \/ edit_task(u, t)
        \/ \E p \in {25, 50, 75, 100} : quick_progress(u, t, p)
        \/ update_progress_start(u, t)
        \/ \E p \in PctInputs : update_progress_handler(u, p)
        \/ show_shopping_list(u, t)
        \/ \E j \in 1..MaxItems : check_item(u, t, j)
        \/ complete_task(u, t)

Scheduler == reminders_loop \/ reminders_resume

Next ==
    \/ Coroutines
    \/ Commands(Users)
    \/ Families(Users)
    \/ Settings(Users)
    \/ Wizard(Users)
    \/ Progress(Users)
    \/ Scheduler
    \/ Advance
    \/ DiskFails
    \/ DiskRecovers

Spec == Init /\ [][Next]_vars

\* ------------------------------------------------------ environments
\* Spec lets every principal send anything at any time.  The specifications
\* below keep all the handlers' code and narrow what the principals send.

\* the principal has no handler in flight: they saw the last answer
Waits(u) ==
    \A i \in 1..MaxFrames : IF frames[i] = Idle THEN TRUE ELSE frames[i].uid # u
\* the principal is in no conversation and saw the last answer
AtMenu(u) == fsm[u].state = NoState /\ Waits(u)
\* In the five specifications that follow one family is created (the guard
\* nextFam = 1) and the others are left to the specifications on families.

DateInput == [kind |-> "date", at |-> 2]
NoDeadlineInput == [kind |-> "none", at |-> 0]

\* One principal who follows each conversation and cancels where they like:
\* every step of every conversation is entered.
CancelNext ==
    \/ \E i \in 1..MaxFrames : Resume(i)
    \/ \E i \in 1..MaxFrames : reminder_selected_finish(i)
    \/ \E i \in 1..MaxFrames : create_task_finish(i)
    \/ cmd_cancel(1)
    \/ AtMenu(1) /\ nextFam = 1 /\ create_family_handler(1)
    \/ AtMenu(1) /\ join_family(1)
    \/ Waits(1) /\ join_key_handler(1, 1)
    \/ AtMenu(1) /\ set_timezone(1)
    \/ AtMenu(1) /\ leave_family_menu(1)
    \/ AtMenu(1) /\ family_settings(1)
    \/ AtMenu(1) /\ change_name_start(1)
    \/ AtMenu(1) /\ change_nick(1)
    \/ AtMenu(1) /\ return_to_main_menu(1)
    \/ AtMenu(1) /\ my_families(1)
    \/ AtMenu(1) /\ enter_family(1, 1)
    \/ AtMenu(1) /\ new_task_from_menu(1)
    \/ Waits(1) /\ InState(1, "create_task_type")
          /\ \E t \in TASK_TYPES : task_type_selected(1, t)
    \/ Waits(1) /\ InState(1, "create_task_shop_category")
          /\ shop_category_selected(1, "food")
    \/ Waits(1) /\ shop_items_handler(1, MaxItems)
    \/ Waits(1) /\ task_desc_handler(1, "d1", 1)
    \/ Waits(1) /\ task_deadline_handler(1, DateInput)
    \/ Waits(1) /\ InState(1, "create_task_reminder") /\ reminder_selected(1, 3)
    \/ AtMenu(1) /\ tasks_list(1)
    \/ AtMenu(1) /\ \E t \in TaskIds : edit_task(1, t)
    \/ AtMenu(1) /\ \E t \in TaskIds : update_progress_start(1, t)

SpecCancel == Init /\ [][CancelNext]_vars

\* One principal in the create-task wizard, who may leave it half way by a
\* menu command or an old button; the disk and the transport may fail.
WizardNext ==
    \/ \E i \in 1..MaxFrames : Resume(i)
    \/ \E i \in 1..MaxFrames : ResumeFail(i)
    \/ \E i \in 1..MaxFrames : reminder_selected_finish(i)
    \/ \E i \in 1..MaxFrames : create_task_finish(i)
    \/ AtMenu(1) /\ nextFam = 1 /\ create_family_handler(1)
    \/ cmd_cancel(1)
    \/ Waits(1) /\ return_to_main_menu(1)
    \/ Waits(1) /\ new_task_from_menu(1)
    \/ Waits(1) /\ InState(1, "create_task_type")
          /\ \E t \in TASK_TYPES : task_type_selected(1, t)
    \/ Waits(1) /\ InState(1, "create_task_shop_category")
          /\ shop_category_selected(1, "food")
    \/ Waits(1) /\ shop_items_handler(1, MaxItems)
    \/ Waits(1) /\ task_desc_handler(1, "d1", 1)
    \/ Waits(1) /\ \E inp \in {DateInput, NoDeadlineInput} :
                      task_deadline_handler(1, inp)
    \/ Waits(1) /\ reminder_selected(1, 3)
    \/ DiskFails
    \/ DiskRecovers

SpecWizard == Init /\ [][WizardNext]_vars

\* One principal who creates tasks of both kinds and works on them, and the
\* scheduler.
TasksNext ==
    \/ \E i \in 1..MaxFrames : Resume(i)
    \/ \E i \in 1..MaxFrames : reminder_selected_finish(i)
    \/ \E i \in 1..MaxFrames : create_task_finish(i)
    \/ AtMenu(1) /\ nextFam = 1 /\ create_family_handler(1)
    \/ Waits(1) /\ set_creator_nick_handler(1, "mama")
    \/ AtMenu(1) /\ new_task_from_menu(1)
    \/ Waits(1) /\ InState(1, "create_task_type")
          /\ \E t \in TASK_TYPES : task_type_selected(1, t)
    \/ Waits(1) /\ InState(1, "create_task_shop_category")
          /\ shop_category_selected(1, "food")
    \/ Waits(1) /\ shop_items_handler(1, MaxItems)
    \/ Waits(1) /\ task_desc_handler(1, "d1", 1)
    \/ Waits(1) /\ task_deadline_handler(1, DateInput)
    \/ Waits(1) /\ InState(1, "create_task_reminder") /\ reminder_selected(1, 3)
    \/ AtMenu(1) /\ tasks_list(1)
    \/ AtMenu(1) /\ \E t \in TaskIds : edit_task(1, t)
    \/ AtMenu(1) /\ \E t \in TaskIds : quick_progress(1, t, 100)
    \/ AtMenu(1) /\ \E t \in TaskIds : update_progress_start(1, t)
    \/ Waits(1) /\ \E p \in {<<75>>, <<100>>} : update_progress_handler(1, p)
    \/ AtMenu(1) /\ \E t \in TaskIds : show_shopping_list(1, t)
    \/ AtMenu(1) /\ \E t \in TaskIds, j \in 1..MaxItems : check_item(1, t, j)
    \/ AtMenu(1) /\ \E t \in TaskIds : complete_task(1, t)
    \/ reminders_loop
    \/ reminders_resume

SpecTasks == Init /\ [][TasksNext]_vars

\* One principal who creates tasks with a reminder and completes them, the
\* scheduler and the clock.
TickNext ==
    \/ \E i \in 1..MaxFrames : Resume(i)
    \/ \E i \in 1..MaxFrames : reminder_selected_finish(i)
    \/ \E i \in 1..MaxFrames : create_task_finish(i)
    \/ AtMenu(1) /\ nextFam = 1 /\ create_family_handler(1)
    \/ Waits(1) /\ set_creator_nick_handler(1, "mama")
    \/ AtMenu(1) /\ new_task_from_menu(1)
    \/ Waits(1) /\ InState(1, "create_task_type")
          /\ task_type_selected(1, "regular")
    \/ Waits(1) /\ task_desc_handler(1, "d1", 1)
    \/ Waits(1) /\ task_deadline_handler(1, DateInput)
    \/ Waits(1) /\ InState(1, "create_task_reminder") /\ reminder_selected(1, 3)
    \/ AtMenu(1) /\ tasks_list(1)
    \/ AtMenu(1) /\ \E t \in TaskIds : edit_task(1, t)
    \/ AtMenu(1) /\ \E t \in TaskIds : complete_task(1, t)
    \/ reminders_loop
    \/ reminders_resume
    \/ Advance

SpecTick == Init /\ [][TickNext]_vars

\* Two principals of one family, each waiting for the bot's answers: the
\* creator creates and completes tasks, the other joins, creates tasks and
\* leaves.  There is no scheduler.
RaceNext ==
    \/ \E i \in 1..MaxFrames : Resume(i)
    \/ \E i \in 1..MaxFrames : create_task_finish(i)
    \/ \E i \in 1..MaxFrames : leave_family_save(i)
    \/ AtMenu(1) /\ nextFam = 1 /\ create_family_handler(1)
    \/ Waits(1) /\ set_creator_nick_handler(1, "mama")
    \/ AtMenu(2) /\ join_family(2)
    \/ Waits(2) /\ join_key_handler(2, 1)
    \/ Waits(2) /\ join_nick_handler(2, "papa")
    \/ \E u \in Users : AtMenu(u) /\ new_task_from_menu(u)
    \/ \E u \in Users : Waits(u) /\ InState(u, "create_task_type")
                           /\ task_type_selected(u, "regular")
    \/ \E u \in Users : Waits(u) /\ task_desc_handler(u, "d1", 1)
    \/ \E u \in Users : Waits(u) /\ task_deadline_handler(u, NoDeadlineInput)
    \/ AtMenu(2) /\ leave_family_menu(2)
    \/ Waits(2) /\ leave_family_confirm(2, TRUE)
    \/ AtMenu(1) /\ tasks_list(1)
    \/ AtMenu(1) /\ \E t \in TaskIds : edit_task(1, t)
    \/ AtMenu(1) /\ \E t \in TaskIds : complete_task(1, t)

SpecRace == Init /\ [][RaceNext]_vars

\* A store left by earlier runs: one family whose creator and other members
\* are not among the principals who act, one member short of the free cap,
\* with the invite key its last join drew.
Crowd == (NumUsers + 1)..(NumUsers + MAX_FREE_MEMBERS - 1)
CrowdedDb ==
    [families |->
        Put(EmptyDict, 1,
            [name |-> DEFAULT_NAME,
             created_at |-> 0,
             creator_id |-> NumUsers + 1,
             members |-> [m \in Crowd |->
                            [nick |-> "m" \o ToString(m), joined |-> 0]],
             active_key |-> [value |-> 1, created |-> 0,
                             expires |-> KEY_EXPIRY_SEC],
             tasks |-> EmptyDict,
             completed_tasks |-> EmptyDict]),
     users |-> [m \in Crowd |->
                  [families |-> <<1>>, current_family |-> 1, tz |-> 0]]]

CrowdedInit ==
    /\ db = CrowdedDb
    /\ diskOk = TRUE
    /\ fsm = [u \in Users |-> EmptyFsm]
    /\ frames = [i \in 1..MaxFrames |-> Idle]
    /\ sched = SchedIdle
    /\ now = 0
    /\ nextFam = 2
    /\ nextTask = 1
    /\ nextKey = 2
    /\ shown = [u \in Users |-> {}]
    /\ reply = [u \in Users |-> "none"]
    /\ fanout = [fam |-> NO_FAMILY, kind |-> "none", to |-> {}]
    /\ reminded = [t \in TaskIds |-> 0]
    /\ StoreInit
    /\ delivery = DeliveryIdle

\* The principals were all given the family's invite key and join with it,
\* each waiting for the bot's answers, while the clock runs.
JoinNext ==
    \/ \E i \in 1..MaxFrames : Resume(i)
    \/ \E u \in Users : AtMenu(u) /\ join_family(u)
    \/ \E u \in Users : Waits(u) /\ join_key_handler(u, 1)
    \/ \E u \in Users, nick \in Nicks : Waits(u) /\ join_nick_handler(u, nick)
    \/ \E u \in Users : Waits(u) /\ cmd_cancel(u)
    \/ Advance

SpecJoin == CrowdedInit /\ [][JoinNext]_vars

\* The creator and one principal who joins with a key the creator gave
\* them; either may leave, the creator may draw a new key or delete the
\* family.  Each waits for the bot's answers.
MembersNext ==
    \/ \E i \in 1..MaxFrames : Resume(i)
    \/ \E i \in 1..MaxFrames : leave_family_save(i)
    \/ AtMenu(1) /\ nextFam = 1 /\ create_family_handler(1)
    \/ Waits(1) /\ set_creator_nick_handler(1, "mama")
    \/ AtMenu(2) /\ join_family(2)
    \/ \E k \in KeyInputs : k < nextKey /\ Waits(2) /\ join_key_handler(2, k)
    \/ Waits(2) /\ join_nick_handler(2, "papa")
    \/ \E u \in Users : AtMenu(u) /\ leave_family_menu(u)
    \/ \E u \in Users : Waits(u) /\ leave_family_confirm(u, TRUE)
    \/ AtMenu(1) /\ family_settings(1)
    \/ AtMenu(1) /\ generate_new_key(1)
    \/ AtMenu(1) /\ delete_family_confirm(1)
    \/ AtMenu(1) /\ delete_family(1)

SpecMembers == Init /\ [][MembersNext]_vars

\* Two principals, each the creator of a family of their own; the second
\* also joins the family of the first and moves between the two families.
\* Both use the settings buttons they were sent.
SettingsNext ==
    \/ \E i \in 1..MaxFrames : Resume(i)
    \/ \E u \in Users : AtMenu(u) /\ nextFam = u /\ create_family_handler(u)
    \/ Waits(1) /\ set_creator_nick_handler(1, "mama")
    \/ Waits(2) /\ set_creator_nick_handler(2, "papa")
    \/ AtMenu(2) /\ join_family(2)
    \/ Waits(2) /\ join_key_handler(2, 1)
    \/ Waits(2) /\ join_nick_handler(2, "papa")
    \/ AtMenu(2) /\ my_families(2)
    \/ \E f \in FamIds : AtMenu(2) /\ enter_family(2, f)
    \/ \E u \in Users : AtMenu(u) /\ family_settings(u)
    \/ \E u \in Users : AtMenu(u) /\ change_name_start(u)
    \/ \E u \in Users : Waits(u) /\ change_name_handler(u, "Fox")
    \/ \E u \in Users : AtMenu(u) /\ delete_family_confirm(u)
    \/ \E u \in Users : AtMenu(u) /\ delete_family(u)

SpecSettings == Init /\ [][SettingsNext]_vars

\* The creator and one principal; either joins with the key the creator
\* was sent (the creator too, who is a member already), and both choose and
\* change their nicknames among the same few.
NickNext ==
    \/ \E i \in 1..MaxFrames : Resume(i)
    \/ AtMenu(1) /\ nextFam = 1 /\ create_family_handler(1)
    \/ \E nick \in Nicks : Waits(1) /\ set_creator_nick_handler(1, nick)
    \/ \E u \in Users : AtMenu(u) /\ join_family(u)
    \/ \E u \in Users, k \in KeyInputs :
          k < nextKey /\ Waits(u) /\ join_key_handler(u, k)
    \/ \E u \in Users, nick \in Nicks : Waits(u) /\ join_nick_handler(u, nick)
    \/ \E u \in Users : AtMenu(u) /\ change_nick(u)
    \/ \E u \in Users, nick \in Nicks : Waits(u) /\ change_nick_handler(u, nick)
    \/ \E u \in Users : Waits(u) /\ cmd_cancel(u)

SpecNick == Init /\ [][NickNext]_vars

\* One principal who creates regular tasks with a deadline in the past, at
\* the edge of the grace window or ahead, and answers at their own pace
\* while the clock runs.
EdgeDateInput == [kind |-> "date", at |-> 0 - GRACE]
PastDateInput == [kind |-> "date", at |-> 0 - GRACE - 1]
DeadlineNext ==
    \/ \E i \in 1..MaxFrames : Resume(i)
    \/ \E i \in 1..MaxFrames : reminder_selected_finish(i)
    \/ \E i \in 1..MaxFrames : create_task_finish(i)
    \/ AtMenu(1) /\ nextFam = 1 /\ create_family_handler(1)
    \/ Waits(1) /\ set_creator_nick_handler(1, "mama")
    \/ AtMenu(1) /\ new_task_from_menu(1)
    \/ Waits(1) /\ InState(1, "create_task_type")
          /\ task_type_selected(1, "regular")
    \/ Waits(1) /\ task_desc_handler(1, "d1", 1)
    \/ \E inp \in {PastDateInput, EdgeDateInput, DateInput} :
          Waits(1) /\ task_deadline_handler(1, inp)
    \/ \E sec \in REMINDER_OPTIONS :
          Waits(1) /\ InState(1, "create_task_reminder")
              /\ reminder_selected(1, sec)
    \/ Advance

SpecDeadline == Init /\ [][DeadlineNext]_vars

\* One member who creates tasks of both kinds without a deadline and works
\* on them with every progress input and every button they were sent, old
\* ones included, and who moves between the family and the main menu.
ProgressNext ==
    \/ \E i \in 1..MaxFrames : Resume(i)
    \/ \E i \in 1..MaxFrames : create_task_finish(i)
    \/ AtMenu(1) /\ nextFam = 1 /\ create_family_handler(1)
    \/ Waits(1) /\ set_creator_nick_handler(1, "mama")
    \/ AtMenu(1) /\ new_task_from_menu(1)
    \/ Waits(1) /\ InState(1, "create_task_type")
          /\ \E t \in TASK_TYPES : task_type_selected(1, t)
    \/ Waits(1) /\ InState(1, "create_task_shop_category")
          /\ shop_category_selected(1, "food")
    \/ Waits(1) /\ shop_items_handler(1, MaxItems)
    \/ Waits(1) /\ task_desc_handler(1, "d1", 1)
    \/ Waits(1) /\ task_deadline_handler(1, NoDeadlineInput)
    \/ AtMenu(1) /\ tasks_list(1)
    \/ AtMenu(1) /\ \E t \in TaskIds : edit_task(1, t)
    \/ AtMenu(1) /\ \E t \in TaskIds, p \in {25, 50, 75, 100} :
                       quick_progress(1, t, p)
    \/ AtMenu(1) /\ \E t \in TaskIds : update_progress_start(1, t)
    \/ Waits(1) /\ \E p \in PctInputs : update_progress_handler(1, p)
    \/ AtMenu(1) /\ \E t \in TaskIds : show_shopping_list(1, t)
    \/ AtMenu(1) /\ \E t \in TaskIds, j \in 1..MaxItems : check_item(1, t, j)
    \/ AtMenu(1) /\ \E t \in TaskIds : complete_task(1, t)
    \/ AtMenu(1) /\ return_to_main_menu(1)
    \/ AtMenu(1) /\ my_families(1)
    \/ AtMenu(1) /\ enter_family(1, 1)

SpecProgress == Init /\ [][ProgressNext]_vars

\* The store alone: snapshots are saved and loaded, the process may stop at
\* any point of a save, a write may raise, and the file under DB_PATH may
\* be found unreadable.
StoreNext ==
    \/ \E s \in Snapshots : store_save_open(s)
    \/ store_save_write
    \/ store_save_replace
    \/ store_save_raises
    \/ store_crash
    \/ \E posix \in BOOLEAN : store_load(posix)
    \/ \E g \in Garbage : store_corrupt(g)
    \/ store_tick

SpecStore == Init /\ [][StoreNext]_vars

\* The creator and one principal who joins; both answer the steps of their
\* conversations with valid and with invalid inputs: blank and taken
\* nicknames, descriptions and item lists that are empty or too long,
\* deadlines that do not parse or are past, percents that are no number
\* of 0..100.
InvalidDateInput == [kind |-> "invalid", at |-> 0]
RetryNext ==
    \/ \E i \in 1..MaxFrames : Resume(i)
    \/ \E i \in 1..MaxFrames : create_task_finish(i)
    \/ AtMenu(1) /\ nextFam = 1 /\ create_family_handler(1)
    \/ \E nick \in {"", "mama"} : Waits(1) /\ set_creator_nick_handler(1, nick)
    \/ AtMenu(2) /\ join_family(2)
    \/ Waits(2) /\ join_key_handler(2, 1)
    \/ \E nick \in NickInputs : Waits(2) /\ join_nick_handler(2, nick)
    \/ AtMenu(2) /\ change_nick(2)
    \/ \E nick \in {"", "papa"} : Waits(2) /\ change_nick_handler(2, nick)
    \/ AtMenu(1) /\ nextTask = 1 /\ new_task_from_menu(1)
    \/ Waits(1) /\ InState(1, "create_task_type")
          /\ \E t \in TASK_TYPES : task_type_selected(1, t)
    \/ Waits(1) /\ InState(1, "create_task_shop_category")
          /\ shop_category_selected(1, "food")
    \/ \E n \in ItemCounts : Waits(1) /\ shop_items_handler(1, n)
    \/ Waits(1) /\ task_desc_handler(1, "d1", 1)
    \/ \E len \in {0, MAX_DESC_LEN + 1} : Waits(1) /\ task_desc_handler(1, "", len)
    \/ \E inp \in {InvalidDateInput, PastDateInput, NoDeadlineInput} :
          Waits(1) /\ task_deadline_handler(1, inp)
    \/ AtMenu(1) /\ tasks_list(1)
    \/ AtMenu(1) /\ \E t \in TaskIds : edit_task(1, t)
    \/ AtMenu(1) /\ \E t \in TaskIds : update_progress_start(1, t)
    \/ \E p \in PctInputs : Waits(1) /\ update_progress_handler(1, p)

SpecRetry == Init /\ [][RetryNext]_vars

\* One principal who creates regular tasks with and without a deadline and
\* with every reminder option, and completes some; the scheduler ticks at
\* every time of the clock.
WindowNext ==
    \/ \E i \in 1..MaxFrames : Resume(i)
    \/ \E i \in 1..MaxFrames : reminder_selected_finish(i)
    \/ \E i \in 1..MaxFrames : create_task_finish(i)
    \/ AtMenu(1) /\ nextFam = 1 /\ create_family_handler(1)
    \/ Waits(1) /\ set_creator_nick_handler(1, "mama")
    \/ AtMenu(1) /\ new_task_from_menu(1)
    \/ Waits(1) /\ InState(1, "create_task_type")
          /\ task_type_selected(1, "regular")
    \/ Waits(1) /\ task_desc_handler(1, "d1", 1)
    \/ \E inp \in {DateInput, NoDeadlineInput} :
          Waits(1) /\ task_deadline_handler(1, inp)
    \/ \E sec \in REMINDER_OPTIONS :
          Waits(1) /\ InState(1, "create_task_reminder")
              /\ reminder_selected(1, sec)
    \/ AtMenu(1) /\ tasks_list(1)
    \/ AtMenu(1) /\ \E t \in TaskIds : edit_task(1, t)
    \/ AtMenu(1) /\ \E t \in TaskIds : complete_task(1, t)
    \/ reminders_loop
    \/ reminders_resume
    \/ Advance

SpecWindow == Init /\ [][WindowNext]_vars

\* The creator, who renames the family, and the principals who join it:
\* every join and every rename notifies the family, and each delivery of a
\* call may fail.
NotifyNext ==
    \/ \E i \in 1..MaxFrames : Resume(i)
    \/ AtMenu(1) /\ nextFam = 1 /\ create_family_handler(1)
    \/ Waits(1) /\ set_creator_nick_handler(1, "mama")
    \/ \E u \in Users \ {1} : AtMenu(u) /\ join_family(u)
    \/ \E u \in Users \ {1}, k \in KeyInputs :
          k < nextKey /\ Waits(u) /\ join_key_handler(u, k)
    \/ \E u \in Users \ {1} : Waits(u) /\ join_nick_handler(u, "papa")
    \/ AtMenu(1) /\ family_settings(1)
    \/ AtMenu(1) /\ change_name_start(1)
    \/ Waits(1) /\ change_name_handler(1, "Fox")
    \/ notify_family_begin
    \/ \E ok \in BOOLEAN : notify_family_send(ok)
    \/ notify_family_return

SpecNotify == Init /\ [][NotifyNext]_vars

\* One principal who runs the create-task wizard once, step by step, and
\* presses the buttons under the reminder question as often and as early as
\* they like: also while the finish step is in its loading animation, and
\* after it has ended.
OnceNext ==
    \/ \E i \in 1..MaxFrames : Resume(i)
    \/ \E i \in 1..MaxFrames : reminder_selected_finish(i)
    \/ \E i \in 1..MaxFrames : create_task_finish(i)
    \/ AtMenu(1) /\ nextFam = 1 /\ create_family_handler(1)
    \/ \E nick \in Nicks : Waits(1) /\ set_creator_nick_handler(1, nick)
    \/ AtMenu(1) /\ <<"task_type">> \notin shown[1] /\ new_task_from_menu(1)
    \/ Waits(1) /\ InState(1, "create_task_type")
          /\ task_type_selected(1, "regular")
    \/ Waits(1) /\ task_desc_handler(1, "d1", 1)
    \/ Waits(1) /\ task_deadline_handler(1, DateInput)
    \/ \E sec \in REMINDER_OPTIONS : reminder_selected(1, sec)
    \/ Advance

SpecOnce == Init /\ [][OnceNext]_vars

\* Operations executed serially: no update is handled while a handler is
\* suspended.  Two principals create families, the second joins the family
\* of the first and moves between its families, and both leave and delete
\* families.
Quiet == \A i \in 1..MaxFrames : frames[i] = Idle
SerialNext ==
    \/ \E i \in 1..MaxFrames : Resume(i)
    \/ \E i \in 1..MaxFrames : leave_family_save(i)
    \/ \E u \in Users : Quiet /\ AtMenu(u) /\ create_family_handler(u)
    \/ \E u \in Users : Quiet /\ set_creator_nick_handler(u, FirstName(u))
    \/ Quiet /\ AtMenu(2) /\ join_family(2)
    \/ \E k \in KeyInputs : Quiet /\ k < nextKey /\ join_key_handler(2, k)
    \/ Quiet /\ join_nick_handler(2, "papa")
    \/ Quiet /\ AtMenu(2) /\ my_families(2)
    \/ \E f \in FamIds : Quiet /\ AtMenu(2) /\ enter_family(2, f)
    \/ \E u \in Users : Quiet /\ AtMenu(u) /\ return_to_main_menu(u)
    \/ \E u \in Users : Quiet /\ AtMenu(u) /\ leave_family_menu(u)
    \/ \E u \in Users : Quiet /\ leave_family_confirm(u, TRUE)
    \/ \E u \in Users : Quiet /\ AtMenu(u) /\ family_settings(u)
    \/ \E u \in Users : Quiet /\ AtMenu(u) /\ delete_family_confirm(u)
    \/ \E u \in Users : Quiet /\ AtMenu(u) /\ delete_family(u)

SpecSerial == Init /\ [][SerialNext]_vars

\* A principal of two families: the first principal creates a family, the
\* second creates its own and joins the first's, lists its families, enters
\* either, and is asked once whether it leaves.  Nothing is handled while a
\* handler of the same principal is suspended.
Asked(u) == \E f \in FamIds : <<"confirm_leave", f>> \in shown[u]
LeaveNext ==
    \/ \E i \in 1..MaxFrames : Resume(i)
    \/ \E i \in 1..MaxFrames : leave_family_save(i)
    \/ \E u \in Users : AtMenu(u) /\ nextFam = u /\ create_family_handler(u)
    \/ \E u \in Users : Waits(u) /\ set_creator_nick_handler(u, FirstName(u))
    \/ AtMenu(2) /\ join_family(2)
    \/ Waits(2) /\ join_key_handler(2, 1)
    \/ Waits(2) /\ join_nick_handler(2, "papa")
    \/ AtMenu(2) /\ my_families(2)
    \/ \E f \in FamIds : Waits(2) /\ enter_family(2, f)
    \/ \E u \in Users : AtMenu(u) /\ ~Asked(u) /\ leave_family_menu(u)
    \/ \E u \in Users, yes \in BOOLEAN : Waits(u) /\ leave_family_confirm(u, yes)

SpecLeave == Init /\ [][LeaveNext]_vars

\* ------------------------------------------------------------ claims
FamiliesOf(d) == DOMAIN d.families
TaskIdsOf(d, f) ==
    DOMAIN d.families[f].tasks \cup DOMAIN d.families[f].completed_tasks

\* C1: for every task the reminder fan-out is triggered at most once,
\* whatever handlers run between the scheduler's ticks: once a tick has sent
\* the reminder and marked it, no later tick notifies again.
C1_ReminderAtMostOnce == \A t \in TaskIds : reminded[t] <= 1

\* C2: when two principals of one family run store-mutating handlers
\* concurrently, what each of them saved is still in the store after both
\* have finished: a task that is in the store of a family stays in it
\* (open or completed) as long as the family exists.
C2_NoLostUpdate ==
    [][\A f \in FamiliesOf(db) \cap FamiliesOf(db') :
          TaskIdsOf(db, f) \subseteq TaskIdsOf(db', f)]_vars

\* the document without the reminder_sent flags of the open tasks
StripFlag(task) == [k \in DOMAIN task \ {"reminder_sent"} |-> task[k]]
WithoutFlags(d) ==
    [d EXCEPT !.families = [f \in DOMAIN @ |->
        [@[f] EXCEPT !.tasks = [t \in DOMAIN @ |-> StripFlag(@[t])]]]]
\* the step in which a tick of the scheduler, back from its deliveries,
\* writes its snapshot
TickSaves == sched.pc = "notify" /\ sched'.pc = "sleep" /\ db' # db

\* C3: the save of a scheduler tick changes nothing in the persisted store
\* but reminder_sent flags: whatever a handler committed between the tick's
\* load and its save is still in the store after the save.
C3_TickChangesOnlyFlags ==
    [][TickSaves => WithoutFlags(db') = WithoutFlags(db)]_vars

\* C4: in every reachable store and for every family, no task id is a key
\* of both tasks and completed_tasks; a task whose progress reached 100 is
\* not left among the open tasks, and every completed task is at 100: a
\* closing transition moves the task within one saved snapshot.
C4_OpenAndClosedDisjoint ==
    \A f \in FamiliesOf(db) :
        LET fam == db.families[f] IN
        /\ DOMAIN fam.tasks \cap DOMAIN fam.completed_tasks = {}
        /\ \A t \in DOMAIN fam.tasks : fam.tasks[t].progress < 100
        /\ \A t \in DOMAIN fam.completed_tasks :
              fam.completed_tasks[t].progress = 100

\* C4's case: a family in whose saved store one task was closed, by its
\* last item being checked, while another one is open
C4_Witness ==
    \E f \in FamiliesOf(db) :
        /\ DOMAIN db.families[f].tasks # {}
        /\ \E t \in DOMAIN db.families[f].completed_tasks :
              /\ db.families[f].completed_tasks[t].type = "shopping"
              /\ AllChecked(db.families[f].completed_tasks[t].items_checked)

\* C5: once a task id is in a family's completed_tasks in the persisted
\* store, it is never again among that family's open tasks, under any
\* interleaving of handlers and scheduler ticks.
C5_ClosedStaysClosed ==
    [][\A f \in FamiliesOf(db) \cap FamiliesOf(db') :
          \A t \in DOMAIN db.families[f].completed_tasks :
              t \notin DOMAIN db'.families[f].tasks]_vars

\* C6: a shopping-list task is in completed_tasks if and only if all of its
\* items are checked: no operation closes it while an item is unchecked, and
\* none leaves it open once every item is checked.
C6_ShoppingClosedIffAllChecked ==
    \A f \in FamiliesOf(db) :
        LET fam == db.families[f] IN
        /\ \A t \in DOMAIN fam.completed_tasks :
              fam.completed_tasks[t].type = "shopping"
                  => AllChecked(fam.completed_tasks[t].items_checked)
        /\ \A t \in DOMAIN fam.tasks :
              fam.tasks[t].type = "shopping"
                  => ~AllChecked(fam.tasks[t].items_checked)

\* C7: every task in a family's completed_tasks carries a completion time
\* and the nickname of the member who completed it, whichever operation
\* closed it.
C7_CompletionStamps ==
    \A f \in FamiliesOf(db) :
        \A t \in DOMAIN db.families[f].completed_tasks :
            {"completed_at", "completed_by"}
                \subseteq DOMAIN db.families[f].completed_tasks[t]

\* the principal's current family is a family of the store
CurrentFamilyExists(u) ==
    /\ u \in DOMAIN db.users
    /\ db.users[u].current_family \in FamiliesOf(db)

\* C8: a cancel signal at any conversation step ends with the principal's
\* step unset and the scratch data empty, shows the family menu if the
\* principal's current family exists and the global menu otherwise, and
\* leaves the store as it was.
C8_CancelFromEveryStep ==
    [][\A u \in Users :
          (fsm[u].state # NoState /\ cmd_cancel(u)) =>
              /\ fsm'[u].state = NoState
              /\ fsm'[u].data = EmptyDict
              /\ reply'[u] = IF CurrentFamilyExists(u)
                             THEN "cancelled_family_menu"
                             ELSE "cancelled_main_menu"
              /\ db' = db]_vars

\* C8's case: the principal cancelled inside their family and is at no step
C8_Witness ==
    /\ reply[1] = "cancelled_family_menu"
    /\ fsm[1] = EmptyFsm
    /\ db.users[1].current_family \in FamiliesOf(db)

\* the coroutine is inside create_task_finish
Finishing(fr) ==
    fr.kind = "ctf" \/ (fr.kind = "tail" /\ fr.of = "create_task_finish")

\* C9: whenever create_task_finish runs, the principal's conversation state
\* and scratch data are cleared when it ends, whether it succeeded or failed.
C9_FinishAlwaysClears ==
    [][\A i \in 1..MaxFrames :
          (Finishing(frames[i]) /\ ~Finishing(frames'[i]))
              => fsm'[frames[i].uid] = EmptyFsm]_vars

\* the fields the create-task wizard collects
WizardFields ==
    {"task_type", "display_type", "shop_category", "desc", "items",
     "quantities", "deadline", "reminder_sec"}

\* C10: when a principal starts the create-task wizard, the scratch map
\* holds no field of an earlier wizard, and a created task is built only
\* from the fields of its own run: a task that is not a shopping list has
\* no items.
C10_ScratchFresh ==
    /\ \A u \in Users :
          InState(u, "create_task_type")
              => DOMAIN fsm[u].data \cap WizardFields = {}
    /\ \A f \in FamiliesOf(db) :
          \A t \in DOMAIN db.families[f].tasks :
              db.families[f].tasks[t].type # "shopping"
                  => db.families[f].tasks[t].items = <<>>

\* an event of principal p is handled: an update p sent, or the rest of one
\* of p's suspended handlers
HandledFor(p) ==
    \/ Commands({p})
    \/ Families({p})
    \/ Settings({p})
    \/ Wizard({p})
    \/ Progress({p})
    \/ \E i \in 1..MaxFrames :
          /\ frames[i] # Idle
          /\ frames[i].uid = p
          /\ \/ Resume(i)
             \/ ResumeFail(i)
             \/ leave_family_save(i)
             \/ reminder_selected_finish(i)
             \/ create_task_finish(i)

\* C11: conversation state is per principal: a step that handles an event
\* of principal p leaves the step and the scratch data of every other
\* principal as they were, also when both are members of one family and
\* both are inside a wizard.
C11_StatePerPrincipal ==
    [][\A p \in Users :
          HandledFor(p) => \A q \in Users \ {p} : fsm'[q] = fsm[q]]_vars

\* C11's case: two members of one family, each at a step of their own
\* create-task wizard with scratch data of their own
C11_Witness ==
    /\ fsm[1].state = "create_task_deadline"
    /\ fsm[2].state = "create_task_desc"
    /\ Has(fsm[1].data, "desc")
    /\ ~Has(fsm[2].data, "desc")
    /\ CurrentFamily(db, 1) = CurrentFamily(db, 2)
    /\ CurrentFamily(db, 1) # NO_FAMILY

\* C12: in every store a family without a subscription has at most
\* MAX_FREE_MEMBERS members, however the key steps and the nickname steps of
\* several joining principals interleave.
C12_FreeCap ==
    \A f \in FamiliesOf(db) :
        Cardinality(DOMAIN db.families[f].members) <= MAX_FREE_MEMBERS

\* C13: a join attempt that presents the family's key is accepted while
\* now <= expires and rejected once now > expires; after the rejection of
\* an expired key the family has no active key in the store.
C13_ExpiredKeyCleared ==
    [][\A u \in Users, k \in KeyInputs :
          join_key_handler(u, k) =>
              \A f \in FamiliesOf(db) :
                  LET kd == db.families[f].active_key IN
                  IF kd = None THEN TRUE
                  ELSE IF kd.value # k THEN TRUE
                  ELSE IF now <= kd.expires
                  THEN reply'[u] # "bad_key"
                  ELSE /\ reply'[u] = "bad_key"
                       /\ db'.families[f].active_key = None]_vars

\* C15: no key is valid after its first successful use.  The principals
\* of SpecJoin all present key 1: a principal becomes a member only while
\* key 1 is still the family's active key, that is before the join of
\* another principal rotated it.
C15_KeySingleUse ==
    [][\A f \in FamiliesOf(db) \cap FamiliesOf(db'), u \in Users :
          (~Has(db.families[f].members, u) /\ Has(db'.families[f].members, u))
              => /\ db.families[f].active_key # None
                 /\ db.families[f].active_key.value = 1]_vars

\* C20: right after a join is saved the new member's nickname differs from
\* the nickname of every other member; a join with a nickname some member
\* has is rejected, the step stays and the store is unchanged.
C20_JoinNickUnique ==
    [][\A u \in Users, nick \in Nicks :
          join_nick_handler(u, nick) =>
              LET f == Get(fsm[u].data, "fam_id", NO_FAMILY) IN
              IF f = NO_FAMILY \/ ~Has(db.families, f) THEN TRUE
              ELSE IF \E m \in DOMAIN db.families[f].members :
                         db.families[f].members[m].nick = nick
              THEN /\ db' = db
                   /\ fsm'[u] = fsm[u]
                   /\ reply'[u] = "nick_taken"
              ELSE /\ Has(db'.families[f].members, u)
                   /\ db'.families[f].members[u].nick = nick
                   /\ \A m \in DOMAIN db'.families[f].members \ {u} :
                         db'.families[f].members[m].nick # nick]_vars

\* C20's case: one principal joined as "papa", and another who asked for the
\* same nickname was refused and is still at the nickname step
C20_Witness ==
    /\ Has(db.families, 1)
    /\ \E u \in Users :
          /\ Has(db.families[1].members, u)
          /\ db.families[1].members[u].nick = "papa"
          /\ \E v \in Users \ {u} :
                /\ reply[v] = "nick_taken"
                /\ fsm[v].state = "join_nick"
                /\ ~Has(db.families[1].members, v)

\* C14: a family has one active key, and a key that was replaced validates
\* for no family from then on: a key value that was drawn and is no
\* family's active key validates for no family in the next store either.
C14_ReplacedKeyStaysInvalid ==
    [][\A k \in 1..(nextKey - 1) :
          (\A f \in FamiliesOf(db) :
              IF db.families[f].active_key = None THEN TRUE
              ELSE db.families[f].active_key.value # k)
          => \A f \in FamiliesOf(db') :
                 ~is_key_valid(k, db'.families[f])[1]]_vars

\* every family id a user record names, in its list or as its current family
Referred(d) ==
    UNION {{d.users[u].families[i] : i \in 1..Len(d.users[u].families)}
           \cup ({d.users[u].current_family} \ {NO_FAMILY}) : u \in DOMAIN d.users}

\* C16: no family of the store has zero members, and no user record names
\* a family that is not in the store: the leave of the last member deletes
\* the family in the same save and leaves no reference to it.
C16_NoOrphanFamily ==
    /\ \A f \in FamiliesOf(db) : DOMAIN db.families[f].members # {}
    /\ Referred(db) \subseteq FamiliesOf(db)

\* C16's case: the last member of the family left after another member had
\* left before, and the family is gone
C16_Witness ==
    /\ nextFam = 2
    /\ FamiliesOf(db) = {}
    /\ fanout.kind = "family_deleted"
    /\ DOMAIN db.users = {1, 2}
    /\ \E u \in Users : reply[u] = "main_menu" /\ Waits(u)

\* C17: the creator id of every family of the store is a key of its
\* members map.
C17_CreatorIsMember ==
    \A f \in FamiliesOf(db) :
        Has(db.families[f].members, db.families[f].creator_id)

\* C18: delete_family by a principal who is not the creator of their
\* current family changes nothing in the store; by the creator it removes
\* the family, and its id from the list and the current-family pointer of
\* every user record, and leaves the other families as they were.
C18_DeleteCreatorOnlyCascades ==
    [][\A u \in Users :
          delete_family(u) =>
              LET f == CurrentFamily(db, u) IN
              IF ~IsCreator(db, u, f)
              THEN db' = db
              ELSE /\ ~Has(db'.families, f)
                   /\ \A g \in FamiliesOf(db) \ {f} :
                         /\ Has(db'.families, g)
                         /\ db'.families[g] = db.families[g]
                   /\ DOMAIN db'.users = DOMAIN db.users
                   /\ \A x \in DOMAIN db'.users :
                         /\ ~InList(db'.users[x].families, f)
                         /\ db'.users[x].current_family # f]_vars

\* C18's case: the creator deleted the family another principal had joined,
\* and that principal, who still has a family of their own, is left with
\* no reference to the deleted one
C18_Witness ==
    /\ ~Has(db.families, 1)
    /\ Has(db.families, 2)
    /\ reply[1] = "main_menu"
    /\ fanout.kind = "joined"
    /\ 2 \in fanout.to
    /\ Has(db.users, 2)
    /\ db.users[2].families = <<2>>
    /\ db.users[2].current_family = NO_FAMILY

\* C19: the display name of a family changes only in a step that handles
\* an event of its creator, and a rename by a principal who is not the
\* creator of the family being renamed is reported and leaves the store
\* unchanged.
C19_RenameCreatorOnly ==
    [][/\ \A f \in FamiliesOf(db) \cap FamiliesOf(db') :
             db'.families[f].name # db.families[f].name
                 => /\ db.families[f].creator_id \in Users
                    /\ HandledFor(db.families[f].creator_id)
       /\ \A u \in Users, n \in Names :
             (change_name_handler(u, n) /\ ~IsCreator(db, u, CurrentFamily(db, u)))
                 => db' = db /\ reply'[u] # "family_menu"]_vars

\* C21: right after a rename is saved (change_nick_handler, or
\* set_creator_nick_handler after the family was created) the renamed
\* member's nickname differs from the nickname of every other member of
\* that family.
C21_RenameNickUnique ==
    [][\A u \in Users, nick \in Nicks :
          ((change_nick_handler(u, nick) \/ set_creator_nick_handler(u, nick))
           /\ db' # db)
              => \A f \in FamiliesOf(db') :
                    (Has(db'.families[f].members, u)
                     /\ db'.families[f] # db.families[f])
                        => \A m \in DOMAIN db'.families[f].members \ {u} :
                              db'.families[f].members[m].nick
                                  # db'.families[f].members[u].nick]_vars

\* C22: a join by a principal who is already a member of the family the key
\* belongs to does not succeed and leaves that family as it was: the
\* member's nickname and joined-at timestamp and the active key stay.
C22_JoinAlreadyMember ==
    [][\A u \in Users, nick \in Nicks :
          join_nick_handler(u, nick) =>
              LET f == Get(fsm[u].data, "fam_id", NO_FAMILY) IN
              IF f = NO_FAMILY \/ ~Has(db.families, f) THEN TRUE
              ELSE Has(db.families[f].members, u)
                      => /\ reply'[u] # "family_menu"
                         /\ Has(db'.families, f)
                         /\ db'.families[f] = db.families[f]]_vars

\* C26: every task of the store with a positive reminder lead-time has a
\* deadline, whatever the order of the wizard's steps and button presses.
C26_ReminderNeedsDeadline ==
    \A f \in FamiliesOf(db) :
        \A t \in DOMAIN db.families[f].tasks :
            db.families[f].tasks[t].reminder_sec > 0
                => db.families[f].tasks[t].deadline # None

\* C27: when a task with a deadline is written to the store, the deadline is
\* not earlier than the time of the write minus the grace window.
C27_DeadlineNotPastAtWrite ==
    [][\A f \in FamiliesOf(db) \cap FamiliesOf(db') :
          \A t \in DOMAIN db'.families[f].tasks \ TaskIdsOf(db, f) :
              db'.families[f].tasks[t].deadline # None
                  => db'.families[f].tasks[t].deadline[1] >= now - GRACE]_vars

\* a task of the family, open or completed
TaskOf(d, f, t) ==
    IF Has(d.families[f].tasks, t) THEN d.families[f].tasks[t]
    ELSE d.families[f].completed_tasks[t]

\* C28: the update log of a task only grows, by appending, and a step that
\* changes the task's progress percent appends exactly one entry with the
\* actor's nickname, the old percent, the new percent and a timestamp.
C28_UpdateLogComplete ==
    [][\A f \in FamiliesOf(db) \cap FamiliesOf(db') :
          \A t \in TaskIdsOf(db, f) \cap TaskIdsOf(db', f) :
              LET old == TaskOf(db, f, t)
                  new == TaskOf(db', f, t) IN
              /\ Len(new.updates) >= Len(old.updates)
              /\ SubSeq(new.updates, 1, Len(old.updates)) = old.updates
              /\ new.progress # old.progress
                    => /\ Len(new.updates) = Len(old.updates) + 1
                       /\ LET e == new.updates[Len(new.updates)] IN
                          /\ DOMAIN e = {"user", "from", "to", "timestamp"}
                          /\ e.from = old.progress
                          /\ e.to = new.progress
                          /\ e.timestamp = now]_vars

\* C29: the progress of every task of the store is an integer in 0..100,
\* below 100 for every open task and exactly 100 for every completed task.
C29_ProgressRange ==
    \A f \in FamiliesOf(db) :
        /\ \A t \in DOMAIN db.families[f].tasks :
              /\ db.families[f].tasks[t].progress \in 0..100
              /\ db.families[f].tasks[t].progress < 100
        /\ \A t \in DOMAIN db.families[f].completed_tasks :
              db.families[f].completed_tasks[t].progress = 100

\* C29's case: one task was closed and another is open with a progress the
\* member typed, and a number above 100 was refused
C29_Witness ==
    /\ Has(db.families, 1)
    /\ \E t \in DOMAIN db.families[1].completed_tasks :
          db.families[1].completed_tasks[t].progress = 100
    /\ \E t \in DOMAIN db.families[1].tasks :
          db.families[1].tasks[t].progress = 50
    /\ reply[1] = "retry"
    /\ fsm[1].state = "update_task_progress"

\* what a handler sends when the family or the task is not found
NotFoundAnswers == {"access_error", "task_not_found", "main_menu"}

\* C30: when the principal's current family is unset or gone, or the task is
\* no longer open, an in-range number sent at the update-progress step and
\* a press of the complete button are answered with an error message, the
\* store stays as it is, and the principal is left in no conversation step.
C30_NotFoundToBaseline ==
    [][\A u \in Users :
          LET f == CurrentFamily(db, u) IN
          /\ \A p \in {<<50>>, <<100>>} :
                (/\ update_progress_handler(u, p)
                 /\ Has(fsm[u].data, "task_id")
                 /\ IF NoFamily(db, f) THEN TRUE
                    ELSE ~Has(OpenTasks(db, f), fsm[u].data["task_id"]))
                    => /\ reply'[u] \in NotFoundAnswers
                       /\ db' = db
                       /\ fsm'[u].state = NoState
          /\ \A t \in TaskIds :
                (/\ complete_task(u, t)
                 /\ IF NoFamily(db, f) THEN TRUE
                    ELSE ~Has(OpenTasks(db, f), t))
                    => /\ reply'[u] \in NotFoundAnswers
                       /\ db' = db
                       /\ fsm'[u].state = NoState]_vars

\* C23: at every point at which the process can stop inside a save, and
\* after it, the file under DB_PATH holds the complete text it held before
\* the save or the complete text of the new snapshot; after the replace it
\* holds the new one.
C23_SaveAtomic ==
    /\ saver.pc \in {"write", "stopped"}
          => Canon(files) = saver.old \/ Canon(files) = json_dump(saver.new)
    /\ saver.pc = "saved" => Canon(files) = json_dump(saver.new)

\* C23's case: the process stopped in the middle of the writes of a save
\* over an older snapshot, and DB_PATH still holds the older one
C23_Witness ==
    /\ saver.pc = "stopped"
    /\ TempPath \in DOMAIN files
    /\ Len(files[TempPath]) > 0
    /\ Len(files[TempPath]) < Len(saver.text)
    /\ json_load(saver.old).kind = "dict"
    /\ saver.old # saver.text
    /\ Canon(files) = saver.old

\* the load reads what the save before it wrote
LoadsAfterSave == (\E posix \in BOOLEAN : store_load(posix)) /\ saver.pc = "saved"

\* C24, as stated: a load after the save of a snapshot, with or without its
\* optional top-level keys, returns a snapshot equal to the one saved.
C24_RoundTripAsStated ==
    [][LoadsAfterSave => loaded'.data = saver.new]_vars

\* C24, amended: the load returns the snapshot saved with every top-level
\* key it lacks set to its default, hence the snapshot itself when it has
\* all of them.
C24_RoundTripUpToDefaults ==
    [][LoadsAfterSave =>
          /\ ~loaded'.raised
          /\ DOMAIN loaded'.data = TopKeys
          /\ \A k \in TopKeys :
                loaded'.data[k] = IF k \in DOMAIN saver.new THEN saver.new[k]
                                  ELSE Default(k)
          /\ DOMAIN saver.new = TopKeys => loaded'.data = saver.new
          /\ files' = files]_vars

\* C24's case: a snapshot with families and without settings was saved and
\* then loaded
C24_Witness ==
    /\ saver.pc = "saved"
    /\ loaded.done /\ loaded.after = "saved"
    /\ DOMAIN saver.new = TopKeys \ {"settings"}
    /\ saver.new["families"] = "{fam}"
    /\ loaded.data["families"] = "{fam}"
    /\ loaded.data["settings"] = Default("settings")
    /\ Canon(files) = saver.text

\* the backups: every file of the directory but DB_PATH and the temporary
Backups(fs) == DOMAIN fs \ {DB_PATH, TempPath}

\* C25: a load that finds an unreadable file under DB_PATH returns the empty
\* default snapshot and leaves the unreadable text under a backup name; no
\* load and no save removes or changes a backup.
C25_UnreadableKept ==
    [][/\ \A b \in Backups(files) : b \in DOMAIN files' /\ files'[b] = files[b]
       /\ ((\E posix \in BOOLEAN : store_load(posix))
           /\ DB_PATH \in DOMAIN files
           /\ json_load(files[DB_PATH]).kind # "dict")
             => /\ ~loaded'.raised
                /\ loaded'.data = DefaultSnapshot
                /\ \E b \in Backups(files') : files'[b] = files[DB_PATH]]_vars

\* the deadline step of principal u took the input as a deadline (or as
\* "no deadline") for a wizard whose type is task_type
DeadlineTaken(u, inp, task_type) ==
    /\ Has(fsm[u].data, "task_type")
    /\ fsm[u].data["task_type"] = task_type
    /\ task_deadline_handler(u, inp)
    /\ reply'[u] # "retry"

\* the step called create_task_finish: a coroutine of u is inside it
FinishCalled(u) ==
    \E i \in 1..MaxFrames :
        /\ frames[i] = Idle
        /\ frames'[i] # Idle
        /\ frames'[i].uid = u
        /\ Finishing(frames'[i])

\* the step went to the select-reminder step and created nothing
WentToReminder(u) ==
    /\ fsm'[u].state = "create_task_reminder"
    /\ <<"reminder">> \in shown'[u]
    /\ ~FinishCalled(u)
    /\ db' = db

\* C31 as stated: for every task type, a deadline step that was given a
\* deadline goes to the select-reminder step and creates no task, and one
\* that was given no deadline goes directly to the finish step.
C31_ReminderStepEveryType ==
    [][\A u \in Users, ty \in TASK_TYPES :
          /\ DeadlineTaken(u, DateInput, ty) => WentToReminder(u)
          /\ DeadlineTaken(u, NoDeadlineInput, ty) => FinishCalled(u)]_vars

\* C31 amended: for every task type but the shopping list, a deadline step
\* that was given a deadline goes to the select-reminder step and creates
\* no task, and one that was given no deadline goes directly to the finish
\* step; the deadline step of a shopping list goes directly to the finish
\* step in both cases and leaves the principal's step as it was.
C31_ReminderStepButShopping ==
    [][\A u \in Users :
          /\ DeadlineTaken(u, DateInput, "regular") => WentToReminder(u)
          /\ DeadlineTaken(u, NoDeadlineInput, "regular") => FinishCalled(u)
          /\ \A inp \in {DateInput, NoDeadlineInput} :
                DeadlineTaken(u, inp, "shopping") =>
                    /\ FinishCalled(u)
                    /\ fsm'[u].state = fsm[u].state
                    /\ shown' = shown]_vars

\* C31's case: the finish step of a shopping list runs with the deadline
\* its wizard was given, and the principal was never shown the reminders
C31_Witness ==
    \E i \in 1..MaxFrames :
        /\ frames[i].kind = "ctf"
        /\ frames[i].data["task_type"] = "shopping"
        /\ frames[i].data["deadline"] # None
        /\ <<"reminder">> \notin shown[frames[i].uid]

\* the nickname is the nickname of a member of the family that the join
\* conversation of u is about
TakenAtJoin(u, nick) ==
    /\ Has(fsm[u].data, "fam_id")
    /\ Has(db.families, fsm[u].data["fam_id"])
    /\ \E m \in DOMAIN db.families[fsm[u].data["fam_id"]].members :
          db.families[fsm[u].data["fam_id"]].members[m].nick = nick

\* a step of u handles an input that the validation of its step rejects
InvalidInputStep(u) ==
    \/ \E len \in {0, MAX_DESC_LEN + 1} : task_desc_handler(u, "", len)
    \/ \E inp \in {InvalidDateInput, PastDateInput} : task_deadline_handler(u, inp)
    \/ \E p \in {None, <<101>>} : update_progress_handler(u, p)
    \/ \E n \in {0, MAX_SHOP_ITEMS + 1} : shop_items_handler(u, n)
    \/ set_creator_nick_handler(u, "")
    \/ change_nick_handler(u, "")
    \/ join_nick_handler(u, "")
    \/ \E nick \in Nicks : TakenAtJoin(u, nick) /\ join_nick_handler(u, nick)

\* C32: validation is retry-in-place: an invalid input at the description
\* step, the deadline step, the progress step, the shopping-items step or a
\* nickname step leaves the principal's step, the scratch data and the
\* store as they were, and starts no coroutine.
C32_RetryInPlace ==
    [][\A u \in Users :
          InvalidInputStep(u) => /\ fsm'[u] = fsm[u]
                                 /\ db' = db
                                 /\ frames' = frames]_vars

\* C32's case: the creator was asked again for the deadline of the task
\* they describe, and the joining principal for a nickname that is free
C32_Witness ==
    /\ reply[1] = "retry"
    /\ fsm[1].state = "create_task_deadline"
    /\ Has(fsm[1].data, "desc")
    /\ reply[2] = "nick_taken"
    /\ fsm[2].state = "join_nick"
    /\ Has(fsm[2].data, "fam_id")

\* the reminder window of the scheduler, as the contract states it
InWindow(task, t) ==
    /\ ~task.reminder_sent
    /\ task.deadline # None
    /\ task.reminder_sec > 0
    /\ 0 < task.deadline[1] - t
    /\ task.deadline[1] - t <= task.reminder_sec

\* a tick between two steps of the scheduler: its snapshot with the mark of
\* the task it has just notified, the open tasks it has not looked at yet,
\* and the time it was taken at
TickSnapshot ==
    IF sched.pc = "sleep" THEN db
    ELSE [sched.db EXCEPT
            !.families[Head(sched.todo)[1]].tasks[Head(sched.todo)[2]].reminder_sent = TRUE]
TickRest ==
    IF sched.pc = "sleep"
    THEN {<<f, t>> : f \in FamiliesOf(db), t \in TaskIds} \cap
         {x \in FamIds \X TaskIds :
             x[1] \in FamiliesOf(db) /\ x[2] \in DOMAIN db.families[x[1]].tasks}
    ELSE {sched.todo[i] : i \in 2..Len(sched.todo)}
TickTime == IF sched.pc = "sleep" THEN now ELSE sched.now
TickDue ==
    {x \in TickRest :
        InWindow(TickSnapshot.families[x[1]].tasks[x[2]], TickTime)}

\* C33: in one tick of the scheduler, taken at time now over the snapshot
\* it loaded, the tasks that get a reminder fan-out and reminder_sent = TRUE
\* are exactly the open tasks with reminder_sent false, a deadline, a lead
\* above 0 and 0 < deadline - now <= lead.  Step by step: while an open task
\* the tick has not looked at is in the window, the next step of the tick
\* notifies the family of one such task, skips only tasks out of the window
\* and changes nothing in its snapshot; back from the deliveries the tick
\* marks the notified task and nothing else; when no task is in the window
\* the tick ends without a fan-out, and what it saves is its snapshot with
\* these marks, completed tasks as they were loaded.
C33_TickWindow ==
    [][(reminders_loop \/ reminders_resume) =>
          IF TickDue = {}
          THEN /\ sched'.pc = "sleep"
               /\ reminded' = reminded
               /\ fanout' = fanout
               /\ db' = IF sched.pc = "notify" THEN TickSnapshot ELSE db
          ELSE /\ sched'.pc = "notify"
               /\ Head(sched'.todo) \in TickDue
               /\ {sched'.todo[i] : i \in 1..Len(sched'.todo)} \subseteq TickRest
               /\ \A x \in TickDue :
                     \E i \in 1..Len(sched'.todo) : sched'.todo[i] = x
               /\ sched'.db = TickSnapshot
               /\ sched'.now = TickTime
               /\ reminded' = [reminded EXCEPT ![Head(sched'.todo)[2]] = @ + 1]
               /\ fanout' = [fam |-> Head(sched'.todo)[1], kind |-> "reminder",
                             to |-> DOMAIN db.families[Head(sched'.todo)[1]].members]
               /\ db' = db]_vars

\* C33's case: a tick taken at time 0 over two open tasks with a deadline
\* and a lead has notified the family of the one that is in the window, and
\* the other one, too early, is the next it looks at
C33_Witness ==
    /\ sched.pc = "notify"
    /\ Len(sched.todo) = 2
    /\ InWindow(sched.db.families[sched.todo[1][1]].tasks[sched.todo[1][2]], sched.now)
    /\ reminded[sched.todo[1][2]] = 1
    /\ LET other == sched.db.families[sched.todo[2][1]].tasks[sched.todo[2][2]] IN
       /\ other.deadline # None
       /\ other.reminder_sec > 0
       /\ ~other.reminder_sent
       /\ other.deadline[1] - sched.now > other.reminder_sec

\* C34: fan-out failure isolation.  In one call of notify_family over a
\* family with members M nobody receives more than one message and a member
\* whose delivery failed receives none; when the call has ended, every
\* member whose own delivery did not fail has received exactly one message,
\* whichever deliveries to the others failed, and the call has raised no
\* error to the operation that made it.
C34_FanOutIsolation ==
    /\ \A m \in DOMAIN delivery.got :
          /\ delivery.got[m] <= 1
          /\ m \in delivery.failed => delivery.got[m] = 0
    /\ delivery.pc = "done" =>
          /\ ~delivery.raised
          /\ DOMAIN delivery.got = delivery.batch.to
          /\ \A m \in delivery.batch.to \ delivery.failed : delivery.got[m] = 1

\* C34's case: a call over two members has ended; the delivery to the
\* first of them failed and the second received the message
C34_Witness ==
    /\ delivery.pc = "done"
    /\ \E m, n \in delivery.batch.to :
          /\ m < n
          /\ m \in delivery.failed
          /\ delivery.got[n] = 1

\* the task of family f with id t, open or completed, in the document d
StoredTask(d, f, t) ==
    IF ~Has(d.families, f) THEN None
    ELSE IF Has(d.families[f].tasks, t) THEN <<d.families[f].tasks[t]>>
    ELSE IF Has(d.families[f].completed_tasks, t)
    THEN <<d.families[f].completed_tasks[t]>>
    ELSE None

\* a step starts a fan-out to a family
FanOutStarts == fanout' # fanout /\ fanout'.kind # "family_deleted"

\* C35: persist precedes fan-out.  In every operation that mutates the
\* store and notifies the family, the step that starts the fan-out leaves
\* the announced change in the persisted store: the member who joined is a
\* member, the member who left is not, the family has its new name, the
\* new task is stored, the task has the announced percent or is among the
\* completed ones, and the task a reminder is sent for is marked.
C35_PersistBeforeFanOut ==
    [][FanOutStarts =>
          LET f == fanout'.fam IN
          /\ \A u \in Users :
                /\ (\E nick \in Nicks : join_nick_handler(u, nick))
                      => /\ Has(db'.families, f)
                         /\ Has(db'.families[f].members, u)
                /\ leave_family_confirm(u, TRUE)
                      => \/ ~Has(db'.families, f)
                         \/ ~Has(db'.families[f].members, u)
                /\ (\E n \in Names : change_name_handler(u, n))
                      => /\ Has(db'.families, f)
                         /\ db'.families[f].name \in Names
                /\ \A t \in TaskIds :
                      /\ \A p \in {25, 50, 75, 100} :
                            (quick_progress(u, t, p)
                                \/ /\ Get(fsm[u].data, "task_id", 0) = t
                                   /\ update_progress_handler(u, <<p>>))
                               => /\ StoredTask(db', f, t) # None
                                  /\ StoredTask(db', f, t)[1].progress = p
                      /\ ((\E j \in 1..MaxItems : check_item(u, t, j))
                             \/ complete_task(u, t))
                            => /\ Has(db'.families, f)
                               /\ Has(db'.families[f].completed_tasks, t)
          /\ \A i \in 1..MaxFrames :
                create_task_finish(i)
                   => StoredTask(db', f, frames[i].task_id) # None
          /\ (reminders_loop \/ reminders_resume)
                => /\ StoredTask(db', f, Head(sched'.todo)[2]) # None
                   /\ StoredTask(db', f, Head(sched'.todo)[2])[1].reminder_sent]_vars

\* C40: when a member leaves a family that still has other members, the
\* member-left notification goes to exactly the members who remain after
\* the removal, and not to the principal who left.
C40_LeftNoticeToRemaining ==
    [][\A u \in Users :
          (leave_family_confirm(u, TRUE) /\ FanOutStarts /\ fanout'.kind = "left")
              => fanout'.to = DOMAIN db.families[fanout'.fam].members \ {u}]_vars

\* C36: one run of the create-task wizard creates exactly one task.  The
\* principal of SpecOnce starts the wizard once: however often and whenever
\* they press the final reminder button, the store holds at most one task.
C36_OneRunOneTask ==
    \A f \in FamiliesOf(db) : Cardinality(TaskIdsOf(db, f)) <= 1

\* the item list matches the type of the task
ItemsMatchType(task) ==
    IF task.type = "shopping"
    THEN /\ Len(task.items) >= 1
         /\ Len(task.items_checked) = Len(task.items)
    ELSE task.items = <<>>

\* C37: in every store a task carries an item list only if it is a
\* shopping list: every shopping task, open or completed, has at least one
\* item and as many checked flags as items, and every task of another type
\* has an empty item list.
C37_ItemsOnlyShopping ==
    \A f \in FamiliesOf(db) :
        /\ \A t \in DOMAIN db.families[f].tasks :
              ItemsMatchType(db.families[f].tasks[t])
        /\ \A t \in DOMAIN db.families[f].completed_tasks :
              ItemsMatchType(db.families[f].completed_tasks[t])

\* C38: the membership index and the member maps of the families agree in
\* every store reached by serially executed operations: a family id is in
\* a user's families list if and only if the family exists and the user is
\* a key of its members map, and the current-family pointer of a user is
\* empty or an id of the user's families list.
C38_IndexAgrees ==
    /\ \A u \in Users, f \in FamIds :
          (Has(db.users, u) /\ InList(db.users[u].families, f))
              <=> (Has(db.families, f) /\ Has(db.families[f].members, u))
    /\ \A u \in DOMAIN db.users :
          \/ db.users[u].current_family = NO_FAMILY
          \/ InList(db.users[u].families, db.users[u].current_family)

\* C38's case: the second principal joined the family of the first and left
\* it again, the family was told, and the first is still its member
C38_Witness ==
    /\ fanout.kind = "left"
    /\ Quiet
    /\ Has(db.users, 2)
    /\ db.users[2].families = <<>>
    /\ Has(db.families, fanout.fam)
    /\ Has(db.families[fanout.fam].members, 1)
    /\ InList(db.users[1].families, fanout.fam)

\* the principal is a member of the family in the stored document
MemberOf(d, f, u) == Has(d.families, f) /\ Has(d.families[f].members, u)

\* C39: the family a principal leaves on confirming is the family the
\* question it answers named, also when its current family was changed
\* between the question and the confirmation.
C39_LeavesFamilyAsked ==
    [][\A i \in 1..MaxFrames :
          leave_family_save(i)
              => \A f \in FamIds :
                    (/\ MemberOf(db, f, frames[i].uid)
                     /\ ~MemberOf(db', f, frames[i].uid))
                        => <<"confirm_leave", f>> \in shown[frames[i].uid]]_vars

====
